---- MODULE Spec2Model ----
(***************************************************************************)
(* State-machine model of the stream blocks of PothosBlocks: Multiplexer,  *)
(* Select, Interleaver, Deinterleaver, FirstN, SkipFirstN, Repeat,         *)
(* Converter, Clamp, Mute and MinMax, and of the SIMD kernels.             *)
(* Every block is modelled by its fields and by the port state its work()  *)
(* reads and writes.  Stream elements are identified by their position in  *)
(* the stream that feeds a port, so that order and loss are observable.    *)
(* Each block has its own specification; the variables of the blocks a     *)
(* specification does not instantiate keep their "absent" values.          *)
(***************************************************************************)
EXTENDS Integers, Sequences, FiniteSets, TLC

VARIABLES
    mxState,        \* Multiplexer: "built" | "failed" (constructor threw) |
                    \* "crashed" (constructor trapped) | "absent"
    mxNumChannels,  \* Multiplexer::_numChannels
    mxRoutes,       \* Multiplexer::_routes, a sequence of output channels
    mxAvail,        \* Multiplexer: elements() of each input port (its front buffer)
    mxLast,         \* the last Multiplexer call and how it ended
    mxPerm,         \* test_multiplexer: the shuffled channels (unorderedChannels)
    mxStep,         \* test_multiplexer: the loop variable chan
    slState,        \* Select: "built" | "absent"
    slNumInputs,    \* Select::_numInputs
    slSelected,     \* Select::_selectedInput
    slAvail,        \* Select: elements() of each input port (its front buffer)
    slLast,         \* the last Select call and what it did
    slCollected,    \* test_select: the channels whose data the collector sink
                    \* holds since it was cleared for setSelectedInput
    fnState,        \* FirstN: "built" | "absent"
    fnElems,        \* FirstN::_elems
    fnDone,         \* FirstN::_done
    fnReserve,      \* FirstN: the reserve of input port 0
    fnQueue,        \* FirstN: the buffers queued on input port 0 (their lengths)
    fnConsumed,     \* FirstN: the elements consumed from input port 0 so far
    fnOut,          \* FirstN: the stream positions posted to output 0 so far
    fnPosts,        \* FirstN: the buffers posted since construction or reset()
    fnMark,         \* FirstN: what had been fed and consumed at the latest reset()
    fnLast,         \* the last FirstN call and what it did
    skState,        \* SkipFirstN: "built" | "absent"
    skElems,        \* SkipFirstN::_elems
    skDone,         \* SkipFirstN::_done
    skReserve,      \* SkipFirstN: the reserve of input port 0
    skQueue,        \* SkipFirstN: the buffers queued on input port 0 (their lengths)
    skConsumed,     \* SkipFirstN: the elements consumed from input port 0 so far
    skOut,          \* SkipFirstN: the stream positions posted to output 0 so far
    skMark,         \* SkipFirstN: what had been fed, consumed and posted at the
                    \* latest reset()
    skLast,         \* the last SkipFirstN call and what it did
    ilvState,       \* Interleaver: "built" | "absent"
    ilvNumInputs,   \* Interleaver::_numInputs
    ilvChunkSize,   \* Interleaver::_chunkSize
    ilvInSize,      \* Interleaver: bytes per element of the buffers on its inputs
    ilvBytes,       \* Interleaver: elements() of each (untyped) input port, in bytes
    ilvOutElems,    \* Interleaver: elements() of output port 0
    ilvLast,        \* the last Interleaver call and what it did
    dlvState,       \* Deinterleaver: "built" | "absent"
    dlvNumOutputs,  \* Deinterleaver::_numOutputs
    dlvChunkSize,   \* Deinterleaver::_chunkSize
    dlvInSize,      \* Deinterleaver: bytes per element of the buffers on its input
    dlvBytes,       \* Deinterleaver: elements() of the (untyped) input port, in bytes
    dlvOutElems,    \* Deinterleaver: elements() of each output port
    dlvLast,        \* the last Deinterleaver call and what it did
    rpState,        \* Repeat: "built" | "crashed" (work() trapped) | "absent"
    rpRepeatCount,  \* Repeat::_repeatCount
    rpOutReserve,   \* Repeat: the reserve of output port 0
    rpInElems,      \* Repeat: elements() of input port 0
    rpOutElems,     \* Repeat: elements() of output port 0
    rpLast,         \* the last Repeat call and what it did
    rtState,        \* round trip: "running" | "absent"
    rtFed,          \* round trip: the elements each feeder source has posted so far
    rtIn,           \* round trip: the front buffer of each Interleaver input
    rtMid,          \* round trip: what the Interleaver produced and the
                    \* Deinterleaver has not been handed yet
    rtFront,        \* round trip: the front buffer of the Deinterleaver input
    rtOut,          \* round trip: what each collector sink holds
    cvState,        \* Converter: "built" | "absent"
    cvInSize,       \* Converter: bytes per element of the buffers on its input
    cvInBytes,      \* Converter: elements() of the (untyped) input port, in bytes
    cvOutElems,     \* Converter: elements() of output port 0
    cvMsgs,         \* Converter: the messages queued on input port 0
    cvLast,         \* the last Converter call and what it did
    clState,        \* Clamp: "built" | "absent"
    clType,         \* Clamp: the element type T
    clMin,          \* Clamp::_min
    clMax,          \* Clamp::_max
    clClampMin,     \* Clamp::_clampMin
    clClampMax,     \* Clamp::_clampMax
    clIn,           \* Clamp: the elements of the front buffer of input port 0
    clOutElems,     \* Clamp: elements() of output port 0
    clLast,         \* the last Clamp call and what it did
    muState,        \* Mute: "built" | "absent"
    muMute,         \* Mute::_mute
    muIn,           \* Mute: elements() of input port 0
    muOutElems,     \* Mute: elements() of output port 0
    muLast,         \* the last Mute call and what it did
    mmState,        \* MinMax: "built" | "absent"
    mmNumInputs,    \* MinMax::_numInputs
    mmIn,           \* MinMax: elements() of each input port
    mmOutElems,     \* MinMax: elements() of the output ports "min" and "max"
    mmConsumed,     \* MinMax: the elements consumed from each input port so far
    mmProduced,     \* MinMax: the elements produced on each output port so far
    mmLast,         \* the last MinMax call and what it did
    krType,         \* kernels: the element type T ("none" when no kernel is run)
    krWidth,        \* kernels: xsimd::simd_traits<T>::size
    krIn,           \* kernels: the input arrays
    krLo,           \* kernels: the argument lo of clamp
    krHi,           \* kernels: the argument hi of clamp
    krLast,         \* kernels: the last call, and what each kernel wrote
    fwState,        \* forwarding block: "built" | "absent"
    fwKind,         \* forwarding block: its class
    fwMute,         \* Mute::_mute
    fwIn,           \* forwarding block: elements() of input port 0
    fwOutElems,     \* forwarding block: elements() of output port 0
    fwMsgs,         \* forwarding block: the messages queued on input port 0
    fwSent,         \* forwarding block: how many messages were sent to it so far
    fwOutMsgs,      \* forwarding block: the messages posted to output port 0
    fwLast,         \* the last forwarding block call and what it did
    csState,        \* ConstantSource: "built" | "absent"
    csDim,          \* ConstantSource: the dimension of the output dtype
    csConstant,     \* ConstantSource::_constant
    csCache,        \* ConstantSource::_cache
    csLast,         \* the last ConstantSource call and what it did
    bfState,        \* BinaryFileSource: "built" | "crashed" | "absent"
    bfHandle,       \* BinaryFileSource::_mmapBufferManager: "null" | "mapped"
    bfMutex,        \* BinaryFileSource::_mmapManagerMutex: 0 (free) or its holder
    bfPc,           \* BinaryFileSource: the method each thread is in, and the
                    \* statements of it that remain
    bfLast,         \* BinaryFileSource: the last statement run and by whom
    evState,        \* Evaluator: "built" | "absent"
    evSlots,        \* Evaluator::_slotNameToVarName, as the set of its variables
    evVarValues,    \* Evaluator::_varValues
    evVarsReady,    \* Evaluator::_varsReady
    evCalls,        \* Evaluator: how often each set-slot has been called
    evComplete,     \* Evaluator: the slot calls made once every slot had been called
    evTriggered,    \* Evaluator: the "triggered" signals emitted so far
    evLast          \* the last Evaluator call and what it did

muxVars == <<mxState, mxNumChannels, mxRoutes, mxAvail, mxLast, mxPerm, mxStep>>
selVars == <<slState, slNumInputs, slSelected, slAvail, slLast, slCollected>>
fnVars == <<fnState, fnElems, fnDone, fnReserve, fnQueue, fnConsumed, fnOut,
            fnPosts, fnMark, fnLast>>
skVars == <<skState, skElems, skDone, skReserve, skQueue, skConsumed, skOut, skMark,
            skLast>>
ilvVars == <<ilvState, ilvNumInputs, ilvChunkSize, ilvInSize, ilvBytes, ilvOutElems,
             ilvLast>>
dlvVars == <<dlvState, dlvNumOutputs, dlvChunkSize, dlvInSize, dlvBytes, dlvOutElems,
             dlvLast>>
rpVars == <<rpState, rpRepeatCount, rpOutReserve, rpInElems, rpOutElems, rpLast>>

rtVars == <<rtState, rtFed, rtIn, rtMid, rtFront, rtOut>>

cvVars == <<cvState, cvInSize, cvInBytes, cvOutElems, cvMsgs, cvLast>>
clVars == <<clState, clType, clMin, clMax, clClampMin, clClampMax, clIn, clOutElems,
            clLast>>
muVars == <<muState, muMute, muIn, muOutElems, muLast>>
mmVars == <<mmState, mmNumInputs, mmIn, mmOutElems, mmConsumed, mmProduced, mmLast>>

\* The routing and framing blocks, and the elementwise blocks.
routingVars == <<muxVars, selVars, fnVars, skVars, ilvVars, dlvVars, rpVars, rtVars>>
krVars == <<krType, krWidth, krIn, krLo, krHi, krLast>>
elementVars == <<cvVars, clVars, muVars, mmVars, krVars>>

\* The forwarding blocks and the blocks outside the stream directory.
fwVars == <<fwState, fwKind, fwMute, fwIn, fwOutElems, fwMsgs, fwSent, fwOutMsgs, fwLast>>
csVars == <<csState, csDim, csConstant, csCache, csLast>>
bfVars == <<bfState, bfHandle, bfMutex, bfPc, bfLast>>
evVars == <<evState, evSlots, evVarValues, evVarsReady, evCalls, evComplete,
            evTriggered, evLast>>
otherVars == <<fwVars, csVars, bfVars, evVars>>

vars == <<routingVars, elementVars, otherVars>>

\* The variables of the blocks a specification does not instantiate.
notMux == <<selVars, fnVars, skVars, ilvVars, dlvVars, rpVars, rtVars, elementVars, otherVars>>
notSel == <<muxVars, fnVars, skVars, ilvVars, dlvVars, rpVars, rtVars, elementVars, otherVars>>
notFn == <<muxVars, selVars, skVars, ilvVars, dlvVars, rpVars, rtVars, elementVars, otherVars>>
notSk == <<muxVars, selVars, fnVars, ilvVars, dlvVars, rpVars, rtVars, elementVars, otherVars>>
notFnSk == <<muxVars, selVars, ilvVars, dlvVars, rpVars, rtVars, elementVars, otherVars>>
notIlv == <<muxVars, selVars, fnVars, skVars, dlvVars, rpVars, rtVars, elementVars, otherVars>>
notRp == <<muxVars, selVars, fnVars, skVars, ilvVars, dlvVars, rtVars, elementVars, otherVars>>
notDlv == <<muxVars, selVars, fnVars, skVars, ilvVars, rpVars, rtVars, elementVars, otherVars>>
notRt == <<muxVars, selVars, fnVars, skVars, rpVars, elementVars, otherVars>>
notCv == <<routingVars, clVars, muVars, mmVars, krVars, otherVars>>
notCl == <<routingVars, cvVars, muVars, mmVars, krVars, otherVars>>
notMu == <<routingVars, cvVars, clVars, mmVars, krVars, otherVars>>
notMm == <<routingVars, cvVars, clVars, muVars, krVars, otherVars>>
notKr == <<routingVars, cvVars, clVars, muVars, mmVars, otherVars>>
notFw == <<routingVars, elementVars, csVars, bfVars, evVars>>
notCs == <<routingVars, elementVars, fwVars, bfVars, evVars>>
notBf == <<routingVars, elementVars, fwVars, csVars, evVars>>
notEv == <<routingVars, elementVars, fwVars, csVars, bfVars>>

----------------------------------------------------------------------------
(* Bounds of the model. *)

MaxChannels == 4

\* Multiplexer::work: the most channels, and the most elements in one buffer.
MaxWorkChannels == 3
MaxMuxElems == 2

\* Select: the most input ports, and the most elements in one buffer.
MaxSelInputs == 3
MaxSelElems == 2

\* FirstN and SkipFirstN: the largest N, and the length of the longest stream.
MaxFirstN == 2
MaxStream == 4

\* Interleaver and Deinterleaver: the most channels, the largest chunk size,
\* the largest element of an input buffer (bytes), the most elements in one
\* input buffer, and the most elements an output buffer offers.
MaxIlvChannels == 2
MaxChunkSize == 2
MaxInSize == 2
MaxIlvIn == 4
MaxIlvOut == 4

\* The round trip: the length of the longest stream of a channel, and the
\* most elements an output buffer of the Deinterleaver offers.
MaxRtStream == 3
MaxRtOut == 2

\* Repeat: the largest repeat count, the most elements in one input buffer,
\* and the most elements an output buffer offers.
MaxRepeat == 3
MaxRepeatIn == 3
MaxRepeatOut == 6

\* Converter: the largest element of an input buffer (bytes), the most
\* elements in one input buffer, the most elements an output buffer offers,
\* and the most messages queued on the input port.
MaxCvInSize == 2
MaxCvIn == 3
MaxCvOut == 3
MaxCvMsgs == 2

\* Clamp and Mute: the most elements in one input buffer, and the most
\* elements an output buffer offers.
MaxElemIn == 2
MaxElemOut == 1

\* MinMax: the most input ports, the most elements in one input buffer, the
\* most elements an output buffer offers, and the length of the longest stream.
MaxMmInputs == 2
MaxMmIn == 2
MaxMmOut == 2
MaxMmStream == 3

\* SIMD kernels: the widest vector (elements), the longest array, and the
\* most input arrays of minmax.
MaxSimdSize == 2
MaxKrLen == 3
MaxKrInputs == 2

\* Forwarding blocks: the most elements in an input and in an output buffer,
\* and the most messages sent to the block.
MaxFwIn == 2
MaxFwOut == 2
MaxFwMsgs == 3

\* ConstantSource: the size of the cache the constructor makes (2 << 13 in
\* the source, scaled down), the largest constant, the largest dimension of
\* the output dtype and the most elements an output buffer holds.
InitialCacheSize == 2
MaxConstant == 3
MaxCsDim == 2
MaxCsOut == 3

\* BinaryFileSource: the threads that call into the block.
MaxBfThreads == 2

\* Evaluator: the most variables, the most calls of one set-slot and the
\* largest argument of a call.
MaxEvVars == 3
MaxEvCalls == 2
MaxEvValue == 1

----------------------------------------------------------------------------
(* Helpers shared by the blocks. *)

Min(a, b) == IF a <= b THEN a ELSE b

\* The channel numbers [0, n).
Chans(n) == 0 .. (n - 1)

\* All vectors of length n over the values in S.
Vectors(n, S) == [1 .. n -> S]

\* The least value of a function over the channels [0, n), n >= 1.
MinOver(f, n) == CHOOSE m \in {f[c] : c \in Chans(n)} : \A c \in Chans(n) : f[c] >= m

\* The identity routes vector <<0, 1, ..., n-1>>.
IdentityRoutes(n) == [i \in 1 .. n |-> i - 1]

\* std::sort of a vector of numbers.
RECURSIVE StdSort(_)
StdSort(s) ==
    IF Len(s) = 0 THEN <<>>
    ELSE LET m == CHOOSE i \in 1 .. Len(s) : \A j \in 1 .. Len(s) : s[i] <= s[j]
             rest == [k \in 1 .. (Len(s) - 1) |-> IF k < m THEN s[k] ELSE s[k + 1]]
         IN  <<s[m]>> \o StdSort(rest)

\* std::find: the offset of the first entry equal to v, Len(s) (== end()) if none.
FindFirst(s, v) ==
    IF \E i \in 1 .. Len(s) : s[i] = v
    THEN (CHOOSE i \in 1 .. Len(s) : s[i] = v /\ \A j \in 1 .. (i - 1) : s[j] # v) - 1
    ELSE Len(s)

\* std::iter_swap of the entries at offsets a and b.
IterSwap(s, a, b) ==
    [k \in 1 .. Len(s) |-> IF k = a + 1 THEN s[b + 1]
                           ELSE IF k = b + 1 THEN s[a + 1] ELSE s[k]]

----------------------------------------------------------------------------
(* The values the variables of a block keep while the block is not instantiated. *)

MuxAbsent ==
    /\ mxState = "absent"
    /\ mxNumChannels = 0
    /\ mxRoutes = <<>>
    /\ mxAvail = <<>>
    /\ mxLast = [op |-> "none"]
    /\ mxPerm = <<>>
    /\ mxStep = 0

SelAbsent ==
    /\ slState = "absent"
    /\ slNumInputs = 0
    /\ slSelected = 0
    /\ slAvail = <<>>
    /\ slLast = [op |-> "none"]
    /\ slCollected = {}

FnAbsent ==
    /\ fnState = "absent"
    /\ fnElems = 0
    /\ fnDone = FALSE
    /\ fnReserve = 0
    /\ fnQueue = <<>>
    /\ fnConsumed = 0
    /\ fnOut = <<>>
    /\ fnPosts = <<>>
    /\ fnMark = [fed |-> 0, consumed |-> 0]
    /\ fnLast = [op |-> "none"]

SkAbsent ==
    /\ skState = "absent"
    /\ skElems = 0
    /\ skDone = FALSE
    /\ skReserve = 0
    /\ skQueue = <<>>
    /\ skConsumed = 0
    /\ skOut = <<>>
    /\ skMark = [fed |-> 0, consumed |-> 0, out |-> 0]
    /\ skLast = [op |-> "none"]

IlvAbsent ==
    /\ ilvState = "absent"
    /\ ilvNumInputs = 0
    /\ ilvChunkSize = 0
    /\ ilvInSize = 0
    /\ ilvBytes = <<>>
    /\ ilvOutElems = 0
    /\ ilvLast = [op |-> "none"]

DlvAbsent ==
    /\ dlvState = "absent"
    /\ dlvNumOutputs = 0
    /\ dlvChunkSize = 0
    /\ dlvInSize = 0
    /\ dlvBytes = 0
    /\ dlvOutElems = <<>>
    /\ dlvLast = [op |-> "none"]

RpAbsent ==
    /\ rpState = "absent"
    /\ rpRepeatCount = 0
    /\ rpOutReserve = 0
    /\ rpInElems = 0
    /\ rpOutElems = 0
    /\ rpLast = [op |-> "none"]

RtAbsent ==
    /\ rtState = "absent"
    /\ rtFed = <<>>
    /\ rtIn = <<>>
    /\ rtMid = <<>>
    /\ rtFront = <<>>
    /\ rtOut = <<>>

CvAbsent ==
    /\ cvState = "absent"
    /\ cvInSize = 0
    /\ cvInBytes = 0
    /\ cvOutElems = 0
    /\ cvMsgs = 0
    /\ cvLast = [op |-> "none"]

ClAbsent ==
    /\ clState = "absent"
    /\ clType = "none"
    /\ clMin = 0
    /\ clMax = 0
    /\ clClampMin = FALSE
    /\ clClampMax = FALSE
    /\ clIn = <<>>
    /\ clOutElems = 0
    /\ clLast = [op |-> "none"]

MuAbsent ==
    /\ muState = "absent"
    /\ muMute = FALSE
    /\ muIn = 0
    /\ muOutElems = 0
    /\ muLast = [op |-> "none"]

MmAbsent ==
    /\ mmState = "absent"
    /\ mmNumInputs = 0
    /\ mmIn = <<>>
    /\ mmOutElems = [min |-> 0, max |-> 0]
    /\ mmConsumed = <<>>
    /\ mmProduced = [min |-> 0, max |-> 0]
    /\ mmLast = [op |-> "none"]

KrAbsent ==
    /\ krType = "none"
    /\ krWidth = 0
    /\ krIn = <<>>
    /\ krLo = 0
    /\ krHi = 0
    /\ krLast = [op |-> "none"]

FwAbsent ==
    /\ fwState = "absent"
    /\ fwKind = "none"
    /\ fwMute = FALSE
    /\ fwIn = 0
    /\ fwOutElems = 0
    /\ fwMsgs = <<>>
    /\ fwSent = 0
    /\ fwOutMsgs = <<>>
    /\ fwLast = [op |-> "none"]

CsAbsent ==
    /\ csState = "absent"
    /\ csDim = 0
    /\ csConstant = 0
    /\ csCache = <<>>
    /\ csLast = [op |-> "none"]

BfAbsent ==
    /\ bfState = "absent"
    /\ bfHandle = "null"
    /\ bfMutex = 0
    /\ bfPc = <<>>
    /\ bfLast = [op |-> "none"]

EvAbsent ==
    /\ evState = "absent"
    /\ evSlots = {}
    /\ evVarValues = <<>>
    /\ evVarsReady = {}
    /\ evCalls = <<>>
    /\ evComplete = 0
    /\ evTriggered = 0
    /\ evLast = [op |-> "none"]

OtherAbsent == FwAbsent /\ CsAbsent /\ BfAbsent /\ EvAbsent

RoutingAbsent ==
    MuxAbsent /\ SelAbsent /\ FnAbsent /\ SkAbsent /\ IlvAbsent /\ DlvAbsent /\ RpAbsent
        /\ RtAbsent

ElementAbsent == CvAbsent /\ ClAbsent /\ MuAbsent /\ MmAbsent /\ KrAbsent

OnlyRp ==
    MuxAbsent /\ SelAbsent /\ FnAbsent /\ SkAbsent /\ IlvAbsent /\ DlvAbsent
        /\ RtAbsent /\ ElementAbsent /\ OtherAbsent
OnlyMux ==
    SelAbsent /\ FnAbsent /\ SkAbsent /\ IlvAbsent /\ DlvAbsent /\ RpAbsent
        /\ RtAbsent /\ ElementAbsent /\ OtherAbsent
OnlySel ==
    MuxAbsent /\ FnAbsent /\ SkAbsent /\ IlvAbsent /\ DlvAbsent /\ RpAbsent
        /\ RtAbsent /\ ElementAbsent /\ OtherAbsent
OnlyFn ==
    MuxAbsent /\ SelAbsent /\ SkAbsent /\ IlvAbsent /\ DlvAbsent /\ RpAbsent
        /\ RtAbsent /\ ElementAbsent /\ OtherAbsent
OnlySk ==
    MuxAbsent /\ SelAbsent /\ FnAbsent /\ IlvAbsent /\ DlvAbsent /\ RpAbsent
        /\ RtAbsent /\ ElementAbsent /\ OtherAbsent
OnlyFnSk ==
    MuxAbsent /\ SelAbsent /\ IlvAbsent /\ DlvAbsent /\ RpAbsent
        /\ RtAbsent /\ ElementAbsent /\ OtherAbsent
OnlyIlv ==
    MuxAbsent /\ SelAbsent /\ FnAbsent /\ SkAbsent /\ DlvAbsent /\ RpAbsent
        /\ RtAbsent /\ ElementAbsent /\ OtherAbsent
OnlyDlv ==
    MuxAbsent /\ SelAbsent /\ FnAbsent /\ SkAbsent /\ IlvAbsent /\ RpAbsent
        /\ RtAbsent /\ ElementAbsent /\ OtherAbsent

OnlyRt ==
    MuxAbsent /\ SelAbsent /\ FnAbsent /\ SkAbsent /\ RpAbsent /\ ElementAbsent
        /\ OtherAbsent
OnlyCv == RoutingAbsent /\ ClAbsent /\ MuAbsent /\ MmAbsent /\ KrAbsent /\ OtherAbsent
OnlyCl == RoutingAbsent /\ CvAbsent /\ MuAbsent /\ MmAbsent /\ KrAbsent /\ OtherAbsent
OnlyMu == RoutingAbsent /\ CvAbsent /\ ClAbsent /\ MmAbsent /\ KrAbsent /\ OtherAbsent
OnlyMm == RoutingAbsent /\ CvAbsent /\ ClAbsent /\ MuAbsent /\ KrAbsent /\ OtherAbsent
OnlyKr == RoutingAbsent /\ CvAbsent /\ ClAbsent /\ MuAbsent /\ MmAbsent /\ OtherAbsent
OnlyFw == RoutingAbsent /\ ElementAbsent /\ CsAbsent /\ BfAbsent /\ EvAbsent
OnlyCs == RoutingAbsent /\ ElementAbsent /\ FwAbsent /\ BfAbsent /\ EvAbsent
OnlyBf == RoutingAbsent /\ ElementAbsent /\ FwAbsent /\ CsAbsent /\ EvAbsent
OnlyEv == RoutingAbsent /\ ElementAbsent /\ FwAbsent /\ CsAbsent /\ BfAbsent

----------------------------------------------------------------------------
(* Multiplexer *)

\* validateRoutesVector: TRUE when it returns, FALSE when it throws
\* InvalidArgumentException.
ValidateRoutesVector(routes) ==
    LET sorted == StdSort(routes)
    IN  /\ sorted[Len(sorted)] = Len(sorted) - 1
        /\ \A chan \in Chans(Len(sorted)) : sorted[chan + 1] = chan

\* The constructor body after validation: _routes(routes), then one
\* emplace_back(chan) per channel.
ConstructedRoutes(routes) == routes \o IdentityRoutes(Len(routes))

\* Multiplexer::_validateChannel: TRUE when it returns, FALSE when it throws
\* RangeException.
ValidateChannel(chan) == chan < mxNumChannels

\* A plausible slip: the swap is anchored at outputPort instead of inputPort.
SwapRouteWrongAnchor(routes, inputPort, outputPort) ==
    IterSwap(routes, outputPort, FindFirst(routes, outputPort))

\* The mutation of setOutputChannel once its checks have passed.
SwapRoute(routes, inputPort, outputPort) ==
    IterSwap(routes, inputPort, FindFirst(routes, outputPort))

\* Multiplexer::setOutputChannel: the error it ends with ("none" when it
\* returns) and the routes it leaves.
SetOutputChannelResult(inputPort, outputPort) ==
    IF ~ValidateChannel(inputPort) \/ ~ValidateChannel(outputPort)
    THEN [err |-> "Range", routes |-> mxRoutes]
    ELSE IF FindFirst(mxRoutes, outputPort) = Len(mxRoutes)
    THEN [err |-> "AssertionViolation", routes |-> mxRoutes]
    ELSE [err |-> "none", routes |-> SwapRoute(mxRoutes, inputPort, outputPort)]

\* Multiplexer::outputChannel for a valid channel.
OutputChannel(inputChannel) == mxRoutes[inputChannel + 1]

\* How the constructor can end.  For an empty routes vector
\* validateRoutesVector reads routes.back(), which is undefined: the build
\* traps, or reads some value and throws, or reads size()-1 and returns.
ConstructorOutcomes(routes) ==
    IF routes = <<>> THEN {"crashed", "failed", "built"}
    ELSE IF ValidateRoutesVector(routes) THEN {"built"}
    ELSE {"failed"}

\* Multiplexer::Multiplexer(dtype, routes) for every routes vector of up to
\* MaxChannels entries, valid or not.
MuxInit ==
    \E n \in 0 .. MaxChannels : \E routes \in Vectors(n, 0 .. n) :
        /\ mxNumChannels = n
        /\ mxState \in ConstructorOutcomes(routes)
        /\ mxRoutes = IF mxState = "built" THEN ConstructedRoutes(routes) ELSE <<>>
        /\ mxAvail = [c \in Chans(n) |-> 0]
        /\ mxLast = [op |-> "ctor", routes |-> routes]
        /\ mxPerm = <<>>
        /\ mxStep = 0
        /\ OnlyMux

\* A call of setOutputChannel with any pair of channel numbers.
MuxSetOutputChannel ==
    /\ mxState = "built"
    /\ \E inputPort \in 0 .. MaxChannels, outputPort \in 0 .. MaxChannels :
        LET r == SetOutputChannelResult(inputPort, outputPort)
        IN  /\ mxRoutes' = r.routes
            /\ mxLast' = IF r.err = "none"
                         THEN [op |-> "setOutputChannel", inputPort |-> inputPort,
                               outputPort |-> outputPort, err |-> r.err]
                         ELSE [op |-> "setOutputChannel", inputPort |-> inputPort,
                               outputPort |-> outputPort, err |-> r.err,
                               before |-> mxRoutes]
    /\ UNCHANGED <<mxState, mxNumChannels, mxAvail, mxPerm, mxStep>>
    /\ UNCHANGED notMux

\* A call of outputChannel with any channel number.
MuxOutputChannel ==
    /\ mxState = "built"
    /\ \E inputChannel \in 0 .. MaxChannels :
        mxLast' = IF ValidateChannel(inputChannel)
                  THEN [op |-> "outputChannel", inputChannel |-> inputChannel,
                        err |-> "none", value |-> OutputChannel(inputChannel)]
                  ELSE [op |-> "outputChannel", inputChannel |-> inputChannel,
                        err |-> "Range"]
    /\ UNCHANGED <<mxState, mxNumChannels, mxRoutes, mxAvail, mxPerm, mxStep>>
    /\ UNCHANGED notMux

MuxNext == MuxSetOutputChannel \/ MuxOutputChannel

SpecMux == MuxInit /\ [][MuxNext]_vars

\* The permutations of [0, n), as routes vectors.
RoutePermutations(n) ==
    {p \in Vectors(n, Chans(n)) : \A i, j \in 1 .. n : p[i] = p[j] => i = j}

\* test_multiplexer: a Multiplexer built with the ordered channels, and the
\* shuffled channels the loop is about to apply.
MuxTestInit ==
    \E n \in 1 .. MaxChannels : \E p \in RoutePermutations(n) :
        /\ mxNumChannels = n
        /\ mxState = "built"
        /\ mxRoutes = ConstructedRoutes(IdentityRoutes(n))
        /\ mxAvail = [c \in Chans(n) |-> 0]
        /\ mxLast = [op |-> "ctor", routes |-> IdentityRoutes(n)]
        /\ mxPerm = p
        /\ mxStep = 0
        /\ OnlyMux

\* test_multiplexer: one iteration of the loop,
\* setOutputChannel(chan, unorderedChannels[chan]).
MuxTestSet ==
    /\ mxState = "built"
    /\ mxStep < mxNumChannels
    /\ LET r == SetOutputChannelResult(mxStep, mxPerm[mxStep + 1])
       IN  /\ mxRoutes' = r.routes
           /\ mxLast' = [op |-> "setOutputChannel", inputPort |-> mxStep,
                         outputPort |-> mxPerm[mxStep + 1], err |-> r.err]
    /\ mxStep' = mxStep + 1
    /\ UNCHANGED <<mxState, mxNumChannels, mxAvail, mxPerm>>
    /\ UNCHANGED notMux

MuxTestNext == MuxTestSet \/ MuxOutputChannel

SpecMuxTest == MuxTestInit /\ [][MuxTestNext]_vars

\* workInfo().minInElements: the fewest elements over the input ports.
MuxMinInElements == MinOver(mxAvail, mxNumChannels)

\* A plausible slip: the table is read as routes[output] = input.
MuxPostedOutputInverse(chan) == FindFirst(mxRoutes, chan)

\* The output port work() posts the buffer of input chan to.
MuxPostedOutput(chan) == mxRoutes[chan + 1]

\* Multiplexer::work: the buffers it posts, in the order of its loop.  A
\* buffer is the input it was taken from and its element count.
MuxPosted ==
    IF MuxMinInElements = 0 THEN <<>>
    ELSE [k \in 1 .. mxNumChannels |->
            [output |-> MuxPostedOutput(k - 1), chan |-> k - 1, n |-> mxAvail[k - 1]]]

\* Multiplexer::work: the elements it consumes from each input port.
MuxConsumed ==
    [c \in Chans(mxNumChannels) |-> IF MuxMinInElements = 0 THEN 0 ELSE mxAvail[c]]

\* A Multiplexer constructed with any valid routes vector of 1 to
\* MaxWorkChannels entries.
MuxWorkInit ==
    \E n \in 1 .. MaxWorkChannels : \E routes \in RoutePermutations(n) :
        /\ mxNumChannels = n
        /\ mxState \in ConstructorOutcomes(routes)
        /\ mxRoutes = ConstructedRoutes(routes)
        /\ mxAvail = [c \in Chans(n) |-> 0]
        /\ mxLast = [op |-> "ctor", routes |-> routes]
        /\ mxPerm = <<>>
        /\ mxStep = 0
        /\ OnlyMux

\* The source of a channel fills the (empty) front buffer of that input port.
MuxFeed ==
    /\ mxState = "built"
    /\ \E c \in Chans(mxNumChannels), n \in 1 .. MaxMuxElems :
        /\ mxAvail[c] = 0
        /\ mxAvail' = [mxAvail EXCEPT ![c] = n]
    /\ mxLast' = [op |-> "feed"]
    /\ UNCHANGED <<mxState, mxNumChannels, mxRoutes, mxPerm, mxStep>>
    /\ UNCHANGED notMux

\* Multiplexer::work.
MuxWork ==
    /\ mxState = "built"
    /\ mxLast' = [op |-> "work", minInElements |-> MuxMinInElements,
                  before |-> mxAvail, posted |-> MuxPosted, consumed |-> MuxConsumed]
    /\ mxAvail' = [c \in Chans(mxNumChannels) |-> mxAvail[c] - MuxConsumed[c]]
    /\ UNCHANGED <<mxState, mxNumChannels, mxRoutes, mxPerm, mxStep>>
    /\ UNCHANGED notMux

MuxWorkNext == MuxSetOutputChannel \/ MuxFeed \/ MuxWork

SpecMuxWork == MuxWorkInit /\ [][MuxWorkNext]_vars

----------------------------------------------------------------------------
(* Multiplexer: the claims. *)

\* C2: the route table of a built Multiplexer has exactly one entry per input
\* channel, and every output channel in [0, N) is the target of exactly one
\* entry.
C2_RouteTableBijection ==
    mxState = "built" =>
        /\ Len(mxRoutes) = mxNumChannels
        /\ \A out \in Chans(mxNumChannels) :
               Cardinality({i \in 1 .. Len(mxRoutes) : mxRoutes[i] = out}) = 1

\* C3: in test_multiplexer, after the calls setOutputChannel(i, p[i]) for
\* i = 0 .. k-1 in increasing order, outputChannel(i) = p[i] for every i < k:
\* right after the i-th call and after every later call.
C3_PermutationApplied ==
    mxState = "built" =>
        \A i \in Chans(mxStep) : OutputChannel(i) = mxPerm[i + 1]

\* C3 witness: the whole loop has run on the largest Multiplexer with a
\* permutation that moves every channel.
C3_Witness ==
    /\ mxState = "built"
    /\ mxNumChannels = MaxChannels
    /\ mxStep = mxNumChannels
    /\ \A i \in 1 .. mxNumChannels : mxPerm[i] # i - 1

\* C16: a work() call of a built Multiplexer with minInElements > 0 posts the
\* buffer of every input channel c to output port routes[c] and to no other,
\* consumes every input in full, and posts exactly one buffer to every output
\* port.
C16_WorkRoutesEveryBuffer ==
    (mxLast.op = "work" /\ mxLast.minInElements > 0) =>
        LET posted == mxLast.posted
        IN  /\ \A c \in Chans(mxNumChannels) :
                   /\ mxLast.consumed[c] = mxLast.before[c]
                   /\ mxAvail[c] = 0
                   /\ {posted[k].output : k \in {j \in 1 .. Len(posted) : posted[j].chan = c}}
                          = {mxRoutes[c + 1]}
                   /\ Cardinality({k \in 1 .. Len(posted) : posted[k].chan = c}) = 1
                   /\ \A k \in 1 .. Len(posted) :
                          posted[k].chan = c => posted[k].n = mxLast.before[c]
            /\ \A out \in Chans(mxNumChannels) :
                   Cardinality({k \in 1 .. Len(posted) : posted[k].output = out}) = 1

\* C16 witness: a work() call on three channels whose routes are a cycle (no
\* channel keeps its own output, and the table differs from its inverse) and
\* whose buffers differ in length.
C16_Witness ==
    /\ mxLast.op = "work"
    /\ mxLast.minInElements > 0
    /\ mxNumChannels = MaxWorkChannels
    /\ \A c \in Chans(mxNumChannels) :
           mxRoutes[c + 1] # c /\ mxRoutes[mxRoutes[c + 1] + 1] # c
    /\ \E c, d \in Chans(mxNumChannels) : mxLast.before[c] # mxLast.before[d]

\* C17: constructing a Multiplexer with a routes vector of length N succeeds
\* exactly when the vector is a permutation of [0, N); otherwise the
\* constructor fails with an InvalidArgument error.
C17_ConstructionIffPermutation ==
    mxLast.op = "ctor" =>
        LET routes == mxLast.routes
        IN  IF routes \in RoutePermutations(Len(routes))
            THEN mxState = "built"
            ELSE mxState = "failed"

----------------------------------------------------------------------------
(* Select *)

\* workInfo().minInElements: the fewest elements over the input ports.
SelMinInElements ==
    CHOOSE m \in 0 .. (MaxSelElems + 1) :
        /\ \E c \in Chans(slNumInputs) : slAvail[c] = m
        /\ \A c \in Chans(slNumInputs) : slAvail[c] >= m

\* A plausible slip: the buffer is taken from the input after the selected one.
SelTakenInputNext == (slSelected + 1) % slNumInputs

\* The input port whose buffer work() takes.
SelTakenInput == slSelected

\* Select::work: the buffers it posts to output 0.  A buffer is the channel
\* whose source filled it and its element count.
SelPosted ==
    IF SelMinInElements = 0 THEN <<>>
    ELSE <<[chan |-> SelTakenInput, n |-> slAvail[SelTakenInput]]>>

\* Select::work: the elements it consumes from each input port.
SelConsumed ==
    [c \in Chans(slNumInputs) |-> IF SelMinInElements = 0 THEN 0 ELSE slAvail[c]]

\* Select::Select(dtype, numInputs): numInputs is not validated, so a Select
\* with no input port can be made.
SelInit ==
    /\ \E n \in 0 .. MaxSelInputs :
        /\ slNumInputs = n
        /\ slAvail = [c \in Chans(n) |-> 0]
    /\ slState = "built"
    /\ slSelected = 0
    /\ slLast = [op |-> "ctor"]
    /\ slCollected = {}
    /\ OnlySel

\* The source of a channel fills the (empty) front buffer of that input port.
SelFeed ==
    /\ slState = "built"
    /\ \E c \in Chans(slNumInputs), n \in 1 .. MaxSelElems :
        /\ slAvail[c] = 0
        /\ slAvail' = [slAvail EXCEPT ![c] = n]
    /\ slLast' = [op |-> "feed"]
    /\ UNCHANGED <<slState, slNumInputs, slSelected, slCollected>>
    /\ UNCHANGED notSel

\* Select::setSelectedInput with any index; test_select clears the collector
\* sink before the call.
SelSetSelectedInput ==
    /\ slState = "built"
    /\ \E k \in 0 .. MaxSelInputs :
        IF k >= slNumInputs
        THEN /\ slLast' = [op |-> "setSelectedInput", arg |-> k, err |-> "Range",
                            before |-> slSelected]
             /\ UNCHANGED <<slSelected, slCollected>>
        ELSE /\ slSelected' = k
             /\ slCollected' = {}
             /\ slLast' = [op |-> "setSelectedInput", arg |-> k, err |-> "none"]
    /\ UNCHANGED <<slState, slNumInputs, slAvail>>
    /\ UNCHANGED notSel

\* Select::work, called when the block has an input port.
SelWork ==
    /\ slState = "built"
    /\ slNumInputs >= 1
    /\ slLast' = [op |-> "work", selected |-> slSelected, before |-> slAvail,
                  posted |-> SelPosted, consumed |-> SelConsumed]
    /\ slAvail' = [c \in Chans(slNumInputs) |-> slAvail[c] - SelConsumed[c]]
    /\ slCollected' = slCollected \cup {SelPosted[i].chan : i \in 1 .. Len(SelPosted)}
    /\ UNCHANGED <<slState, slNumInputs, slSelected>>
    /\ UNCHANGED notSel

SelNext == SelFeed \/ SelSetSelectedInput \/ SelWork

SpecSelect == SelInit /\ [][SelNext]_vars

\* C7: a Select work() invocation that makes progress posts exactly one
\* buffer, the front buffer of the input selected at that moment; and what
\* the output has collected since selectedInput was set is only the selected
\* channel's data.
C7_SelectForwardsSelected ==
    /\ (slLast.op = "work" /\ (\E c \in Chans(slNumInputs) : slLast.consumed[c] > 0
                               \/ slLast.posted # <<>>)) =>
           slLast.posted = <<[chan |-> slLast.selected,
                              n |-> slLast.before[slLast.selected]]>>
    /\ slCollected \subseteq {slSelected}

\* C7 witness: work() forwarded the buffer of a selected input other than 0
\* while another input held a buffer of a different length.
C7_Witness ==
    /\ slLast.op = "work"
    /\ slLast.selected # 0
    /\ slLast.posted # <<>>
    /\ slLast.before[0] # slLast.before[slLast.selected]
    /\ slCollected = {slSelected}

\* C8: whenever the selected input has elements available, a work()
\* invocation forwards them, whatever the unselected inputs hold.
C8_SelectNeverStalls ==
    (slLast.op = "work" /\ slLast.before[slLast.selected] > 0) =>
        /\ Len(slLast.posted) = 1
        /\ slLast.consumed[slLast.selected] = slLast.before[slLast.selected]

----------------------------------------------------------------------------
(* The input port of FirstN and of SkipFirstN *)

\* The elements in a queue of buffers.
RECURSIVE QueueTotal(_)
QueueTotal(q) == IF q = <<>> THEN 0 ELSE q[1] + QueueTotal(Tail(q))

\* InputPort::consume(n): the queue without its first n elements.
RECURSIVE QueueDrop(_, _)
QueueDrop(q, n) ==
    IF n = 0 \/ q = <<>> THEN q
    ELSE IF q[1] <= n THEN QueueDrop(Tail(q), n - q[1])
    ELSE <<q[1] - n>> \o Tail(q)

\* The values workInfo().minInElements (== input->elements()) can take: the
\* length of the front buffer, which the port accumulates from the queued
\* buffers when it is shorter than the reserve.
PortElements(q, reserve) ==
    IF q = <<>> THEN {0}
    ELSE IF q[1] >= reserve \/ QueueTotal(q) < reserve THEN {q[1]}
    ELSE reserve .. QueueTotal(q)

\* The scheduler invokes work() only when the port holds its reserve.
PortReady(elemsIn, reserve) == elemsIn >= reserve

\* The stream positions first .. first+n-1 of a buffer.
BufferElems(buffer) == [i \in 1 .. buffer.n |-> buffer.first + i - 1]

\* The elements of a sequence of buffers, in order.
RECURSIVE PostedElems(_)
PostedElems(buffers) ==
    IF buffers = <<>> THEN <<>>
    ELSE BufferElems(buffers[1]) \o PostedElems(Tail(buffers))

\* C18: in every state of a Select block selectedInput is a valid index in
\* [0, numInputs), and setSelectedInput(k) with k >= numInputs fails with a
\* Range error.
C18_SelectedInputValid ==
    slState = "built" =>
        /\ slSelected \in Chans(slNumInputs)
        /\ (slLast.op = "setSelectedInput" /\ slLast.arg >= slNumInputs) =>
               slLast.err = "Range"

----------------------------------------------------------------------------
(* FirstN *)

\* A plausible slip: the taken buffer is posted without setElements(_elems).
FirstNWorkUntruncated(elemsIn) ==
    IF elemsIn = 0
    THEN [posted |-> <<>>, consumed |-> 0, done |-> fnDone, reserve |-> fnReserve]
    ELSE IF ~fnDone
    THEN IF elemsIn >= fnElems
         THEN [posted |-> <<[first |-> fnConsumed + 1, n |-> elemsIn]>>,
               consumed |-> elemsIn, done |-> TRUE, reserve |-> fnReserve]
         ELSE [posted |-> <<>>, consumed |-> 0, done |-> FALSE, reserve |-> fnElems]
    ELSE [posted |-> <<>>, consumed |-> elemsIn, done |-> TRUE, reserve |-> fnReserve]

\* FirstN::work with elemsIn elements on the input: what it posts, what it
\* consumes, and the _done and reserve it leaves.
FirstNWork(elemsIn) ==
    IF elemsIn = 0
    THEN [posted |-> <<>>, consumed |-> 0, done |-> fnDone, reserve |-> fnReserve]
    ELSE IF ~fnDone
    THEN IF elemsIn >= fnElems
         THEN [posted |-> <<[first |-> fnConsumed + 1, n |-> fnElems]>>,
               consumed |-> elemsIn, done |-> TRUE, reserve |-> fnReserve]
         ELSE [posted |-> <<>>, consumed |-> 0, done |-> FALSE, reserve |-> fnElems]
    ELSE [posted |-> <<>>, consumed |-> elemsIn, done |-> TRUE, reserve |-> fnReserve]

\* FirstN::FirstN(dtype, elems).
FnBuilt ==
    /\ fnState = "built"
    /\ fnElems \in 1 .. MaxFirstN
    /\ fnDone = FALSE
    /\ fnReserve = 0
    /\ fnQueue = <<>>
    /\ fnConsumed = 0
    /\ fnOut = <<>>
    /\ fnPosts = <<>>
    /\ fnMark = [fed |-> 0, consumed |-> 0]
    /\ fnLast = [op |-> "ctor"]

\* The scheduler invokes FirstN::work.
FnWorkStep ==
    /\ fnState = "built"
    /\ \E elemsIn \in PortElements(fnQueue, fnReserve) :
        /\ PortReady(elemsIn, fnReserve)
        /\ LET w == FirstNWork(elemsIn)
           IN  /\ fnDone' = w.done
               /\ fnReserve' = w.reserve
               /\ fnQueue' = QueueDrop(fnQueue, w.consumed)
               /\ fnConsumed' = fnConsumed + w.consumed
               /\ fnOut' = fnOut \o PostedElems(w.posted)
               /\ fnPosts' = fnPosts \o w.posted
               /\ fnLast' = [op |-> "work", elemsIn |-> elemsIn, doneBefore |-> fnDone,
                             reserveBefore |-> fnReserve,
                             posted |-> w.posted, consumed |-> w.consumed]
    /\ UNCHANGED <<fnState, fnElems, fnMark>>

\* A plausible slip: reset() flips _done.
FirstNResetToggle(done) == ~done

\* FirstN::reset: the _done it leaves.
FirstNReset(done) == FALSE

\* FirstN::reset.
FnResetStep ==
    /\ fnState = "built"
    /\ fnDone' = FirstNReset(fnDone)
    /\ fnPosts' = <<>>
    /\ fnMark' = [fed |-> fnConsumed + QueueTotal(fnQueue), consumed |-> fnConsumed]
    /\ fnLast' = [op |-> "reset"]
    /\ UNCHANGED <<fnState, fnElems, fnReserve, fnQueue, fnConsumed, fnOut>>

\* The upstream block posts a buffer of n elements to the input of FirstN.
FnFeedStep(n) ==
    /\ fnState = "built"
    /\ fnConsumed + QueueTotal(fnQueue) + n <= MaxStream
    /\ fnQueue' = Append(fnQueue, n)
    /\ fnLast' = [op |-> "feed"]
    /\ UNCHANGED <<fnState, fnElems, fnDone, fnReserve, fnConsumed, fnOut, fnPosts, fnMark>>

FnInit == FnBuilt /\ OnlyFn

FnWork == FnWorkStep /\ UNCHANGED notFn

FnReset == FnResetStep /\ UNCHANGED notFn

FnFeed == \E n \in 1 .. MaxStream : FnFeedStep(n) /\ UNCHANGED notFn

FnNext == FnFeed \/ FnWork \/ FnReset

SpecFirstN == FnInit /\ [][FnNext]_vars

\* C6 as stated: between construction (or the latest reset()) and the next
\* reset(), FirstN posts at most one buffer, that buffer holds exactly the
\* first N elements received since then, and every work() invocation after it
\* consumes all available input and posts nothing.
C6_FirstNWindowReceived ==
    fnState = "built" =>
        /\ Len(fnPosts) <= 1
        /\ Len(fnPosts) = 1 => fnPosts[1] = [first |-> fnMark.fed + 1, n |-> fnElems]
        /\ (fnLast.op = "work" /\ fnLast.doneBefore) =>
               (fnLast.posted = <<>> /\ fnLast.consumed = fnLast.elemsIn)

\* C6 amended: between construction (or the latest reset()) and the next
\* reset(), FirstN posts at most one buffer, that buffer holds exactly the
\* first N elements not yet consumed at that point (reset() leaves the
\* elements already queued on the input in place), and every work()
\* invocation after it consumes all available input and posts nothing.
C6_FirstNWindowUnconsumed ==
    fnState = "built" =>
        /\ Len(fnPosts) <= 1
        /\ Len(fnPosts) = 1 => fnPosts[1] = [first |-> fnMark.consumed + 1, n |-> fnElems]
        /\ (fnLast.op = "work" /\ fnLast.doneBefore) =>
               (fnLast.posted = <<>> /\ fnLast.consumed = fnLast.elemsIn)

\* C6 witness: after a reset() made while elements were queued, FirstN has
\* posted its window and a later work() invocation has dropped more input.
C6_Witness ==
    /\ fnState = "built"
    /\ fnMark.fed > fnMark.consumed
    /\ Len(fnPosts) = 1
    /\ fnLast.op = "work"
    /\ fnLast.doneBefore
    /\ fnLast.consumed > 0

----------------------------------------------------------------------------
(* SkipFirstN *)

\* A plausible slip: the stalling branch does not call setReserve.
SkipFirstNWorkNoReserve(elemsIn) ==
    IF elemsIn = 0
    THEN [posted |-> <<>>, consumed |-> 0, done |-> skDone, reserve |-> skReserve]
    ELSE IF ~skDone
    THEN IF elemsIn >= skElems
         THEN [posted |-> <<[first |-> skConsumed + skElems + 1, n |-> elemsIn - skElems]>>,
               consumed |-> elemsIn, done |-> TRUE, reserve |-> skReserve]
         ELSE [posted |-> <<>>, consumed |-> 0, done |-> FALSE, reserve |-> skReserve]
    ELSE [posted |-> <<[first |-> skConsumed + 1, n |-> elemsIn]>>,
          consumed |-> elemsIn, done |-> TRUE, reserve |-> skReserve]

\* SkipFirstN::work with elemsIn elements on the input: what it posts, what it
\* consumes, and the _done and reserve it leaves.  (_elemsBytes is _elems
\* elements of the port's type.)
SkipFirstNWork(elemsIn) ==
    IF elemsIn = 0
    THEN [posted |-> <<>>, consumed |-> 0, done |-> skDone, reserve |-> skReserve]
    ELSE IF ~skDone
    THEN IF elemsIn >= skElems
         THEN [posted |-> <<[first |-> skConsumed + skElems + 1, n |-> elemsIn - skElems]>>,
               consumed |-> elemsIn, done |-> TRUE, reserve |-> skReserve]
         ELSE [posted |-> <<>>, consumed |-> 0, done |-> FALSE, reserve |-> skElems]
    ELSE [posted |-> <<[first |-> skConsumed + 1, n |-> elemsIn]>>,
          consumed |-> elemsIn, done |-> TRUE, reserve |-> skReserve]

\* SkipFirstN::SkipFirstN(dtype, elems).
SkBuilt ==
    /\ skState = "built"
    /\ skElems \in 1 .. MaxFirstN
    /\ skDone = FALSE
    /\ skReserve = 0
    /\ skQueue = <<>>
    /\ skConsumed = 0
    /\ skOut = <<>>
    /\ skMark = [fed |-> 0, consumed |-> 0, out |-> 0]
    /\ skLast = [op |-> "ctor"]

\* The scheduler invokes SkipFirstN::work.
SkWorkStep ==
    /\ skState = "built"
    /\ \E elemsIn \in PortElements(skQueue, skReserve) :
        /\ PortReady(elemsIn, skReserve)
        /\ LET w == SkipFirstNWork(elemsIn)
           IN  /\ skDone' = w.done
               /\ skReserve' = w.reserve
               /\ skQueue' = QueueDrop(skQueue, w.consumed)
               /\ skConsumed' = skConsumed + w.consumed
               /\ skOut' = skOut \o PostedElems(w.posted)
               /\ skLast' = [op |-> "work", elemsIn |-> elemsIn, doneBefore |-> skDone,
                             reserveBefore |-> skReserve,
                             front |-> IF skQueue = <<>> THEN 0 ELSE skQueue[1],
                             first |-> skConsumed + 1,
                             posted |-> w.posted, consumed |-> w.consumed]
    /\ UNCHANGED <<skState, skElems, skMark>>

\* SkipFirstN::reset: the _done it leaves.
SkipFirstNReset(done) == FALSE

\* SkipFirstN::reset.
SkResetStep ==
    /\ skState = "built"
    /\ skDone' = SkipFirstNReset(skDone)
    /\ skMark' = [fed |-> skConsumed + QueueTotal(skQueue), consumed |-> skConsumed,
                  out |-> Len(skOut)]
    /\ skLast' = [op |-> "reset"]
    /\ UNCHANGED <<skState, skElems, skReserve, skQueue, skConsumed, skOut>>

\* The upstream block posts a buffer of n elements to the input of SkipFirstN.
SkFeedStep(n) ==
    /\ skState = "built"
    /\ skConsumed + QueueTotal(skQueue) + n <= MaxStream
    /\ skQueue' = Append(skQueue, n)
    /\ skLast' = [op |-> "feed"]
    /\ UNCHANGED <<skState, skElems, skDone, skReserve, skConsumed, skOut, skMark>>

SkInit == SkBuilt /\ OnlySk

SkWork == SkWorkStep /\ UNCHANGED notSk

SkReset == SkResetStep /\ UNCHANGED notSk

SkFeed == \E n \in 1 .. MaxStream : SkFeedStep(n) /\ UNCHANGED notSk

SkNext == SkFeed \/ SkWork \/ SkReset

SpecSkipFirstN == SkInit /\ [][SkNext]_vars

\* C5: once SkipFirstN is done, no queued input is withheld from work(), and
\* every work() invocation forwards the front buffer as it arrived: the same
\* elements, nothing dropped, nothing merged.
C5_SkipPassthrough ==
    skState = "built" =>
        /\ (skDone /\ skQueue # <<>>) =>
               \E elemsIn \in PortElements(skQueue, skReserve) :
                   PortReady(elemsIn, skReserve)
        /\ (skLast.op = "work" /\ skLast.doneBefore /\ skLast.front > 0) =>
               /\ skLast.posted = <<[first |-> skLast.first, n |-> skLast.front]>>
               /\ skLast.consumed = skLast.front

----------------------------------------------------------------------------
(* FirstN or SkipFirstN on its own, with reset() *)

WindowInit == FnInit \/ SkInit

WindowNext == FnNext \/ SkNext

SpecWindow == WindowInit /\ [][WindowNext]_vars

\* C21 as stated: a work() invocation of a FirstN or SkipFirstN that is not
\* done, with fewer than N input elements available, consumes nothing, posts
\* nothing and declares an input reserve of N.
C21_StallDeclaresReserve ==
    /\ (fnLast.op = "work" /\ ~fnLast.doneBefore /\ fnLast.elemsIn < fnElems) =>
           (fnLast.consumed = 0 /\ fnLast.posted = <<>> /\ fnReserve = fnElems)
    /\ (skLast.op = "work" /\ ~skLast.doneBefore /\ skLast.elemsIn < skElems) =>
           (skLast.consumed = 0 /\ skLast.posted = <<>> /\ skReserve = skElems)

\* C21 amended: a work() invocation of a FirstN or SkipFirstN that is not
\* done consumes nothing and posts nothing when fewer than N input elements
\* are available; it declares an input reserve of N when at least one element
\* is available, and leaves the reserve as it was when none is.
C21_StallDeclaresReserveOnInput ==
    /\ (fnLast.op = "work" /\ ~fnLast.doneBefore /\ fnLast.elemsIn < fnElems) =>
           /\ fnLast.consumed = 0
           /\ fnLast.posted = <<>>
           /\ fnReserve = IF fnLast.elemsIn > 0 THEN fnElems ELSE fnLast.reserveBefore
    /\ (skLast.op = "work" /\ ~skLast.doneBefore /\ skLast.elemsIn < skElems) =>
           /\ skLast.consumed = 0
           /\ skLast.posted = <<>>
           /\ skReserve = IF skLast.elemsIn > 0 THEN skElems ELSE skLast.reserveBefore

\* C21 witness: a SkipFirstN that had declared no reserve has just been
\* invoked with some, but fewer than N, elements.
C21_Witness ==
    /\ skLast.op = "work"
    /\ ~skLast.doneBefore
    /\ skLast.elemsIn > 0
    /\ skLast.elemsIn < skElems
    /\ skLast.reserveBefore = 0
    /\ skReserve = skElems

\* The stream positions first, first + 1, ... as far as n elements.
PositionsFrom(first, n) == [i \in 1 .. n |-> first + i - 1]

\* What SkipFirstN has posted since the latest reset().
SkOutSinceReset == SubSeq(skOut, skMark.out + 1, Len(skOut))

\* C22 as stated: reset() is idempotent, and after it the block treats the
\* input that follows as a newly constructed block would: FirstN forwards the
\* first N elements received after the reset, SkipFirstN skips the first N
\* elements received after the reset and forwards what follows them.
C22_ResetAsNew ==
    /\ fnState = "built" =>
           /\ FirstNReset(FirstNReset(fnDone)) = FirstNReset(fnDone)
           /\ FirstNReset(fnDone) = FALSE
           /\ \A k \in 1 .. Len(fnPosts) :
                  fnPosts[k] = [first |-> fnMark.fed + 1, n |-> fnElems]
    /\ skState = "built" =>
           /\ SkipFirstNReset(SkipFirstNReset(skDone)) = SkipFirstNReset(skDone)
           /\ SkipFirstNReset(skDone) = FALSE
           /\ SkOutSinceReset =
                  PositionsFrom(skMark.fed + skElems + 1, Len(SkOutSinceReset))

\* C22 amended: reset() is idempotent and sets done back to its initial
\* value, leaving the input port as it is; after it the block treats the
\* elements not yet consumed, those still queued at the reset included, as a
\* newly constructed block would: FirstN forwards the first N of them,
\* SkipFirstN skips the first N of them and forwards what follows.
C22_ResetAsNewOnUnconsumed ==
    /\ fnState = "built" =>
           /\ FirstNReset(FirstNReset(fnDone)) = FirstNReset(fnDone)
           /\ FirstNReset(fnDone) = FALSE
           /\ \A k \in 1 .. Len(fnPosts) :
                  fnPosts[k] = [first |-> fnMark.consumed + 1, n |-> fnElems]
    /\ skState = "built" =>
           /\ SkipFirstNReset(SkipFirstNReset(skDone)) = SkipFirstNReset(skDone)
           /\ SkipFirstNReset(skDone) = FALSE
           /\ SkOutSinceReset =
                  PositionsFrom(skMark.consumed + skElems + 1, Len(SkOutSinceReset))

\* C22 witness: a SkipFirstN was reset while an element was queued on its
\* input, and has since skipped N elements and forwarded one.
C22_Witness ==
    /\ skState = "built"
    /\ skMark.fed > skMark.consumed
    /\ skDone
    /\ SkOutSinceReset # <<>>

----------------------------------------------------------------------------
(* testFirstN: one feeder source connected to a FirstN and to a SkipFirstN *)

FnSkInit == FnBuilt /\ SkBuilt /\ skElems = fnElems /\ OnlyFnSk

\* The feeder source posts a buffer of n elements: it reaches both inputs.
FnSkFeed ==
    \E n \in 1 .. MaxStream : FnFeedStep(n) /\ SkFeedStep(n) /\ UNCHANGED notFnSk

FnSkFirstWork == FnWorkStep /\ UNCHANGED <<skVars, notFnSk>>

FnSkSkipWork == SkWorkStep /\ UNCHANGED <<fnVars, notFnSk>>

FnSkNext == FnSkFeed \/ FnSkFirstWork \/ FnSkSkipWork

SpecFirstSkip == FnSkInit /\ [][FnSkNext]_vars

\* Neither block can be invoked to any effect: no input is queued, or what is
\* queued is less than the reserve.
FnSkQuiescent ==
    /\ fnQueue = <<>> \/ QueueTotal(fnQueue) < fnReserve
    /\ skQueue = <<>> \/ QueueTotal(skQueue) < skReserve

\* C4: when a run over an input stream of L >= N elements has come to rest,
\* what FirstN(N) posted followed by what SkipFirstN(N) posted is the stream.
C4_FirstSkipReconstruct ==
    (fnState = "built" /\ skState = "built" /\ FnSkQuiescent
        /\ fnConsumed + QueueTotal(fnQueue) >= fnElems) =>
        fnOut \o skOut = [i \in 1 .. (fnConsumed + QueueTotal(fnQueue)) |-> i]

----------------------------------------------------------------------------
(* Interleaver *)

\* inputPort->buffer().convert(_outputDType).elements(): the conversion keeps
\* the element count of the buffer, whose length the untyped port gives in bytes.
IlvConverted(c) == ilvBytes[c] \div ilvInSize

\* workInfo().minElements of the Interleaver.
IlvMinElements == Min(MinOver(ilvBytes, ilvNumInputs), ilvOutElems)

\* elemsIn: the fewest converted elements over the inputs.
IlvElemsIn == MinOver([c \in Chans(ilvNumInputs) |-> IlvConverted(c)], ilvNumInputs)

\* numChunks of Interleaver::work.
IlvNumChunks ==
    Min(IlvElemsIn \div ilvChunkSize, (ilvOutElems \div ilvChunkSize) \div ilvNumInputs)

\* Whether Interleaver::work gets past its two early returns.
IlvProceeds == IlvMinElements # 0 /\ IlvNumChunks # 0

\* A plausible slip: the inputs are copied one after the other, all the
\* chunks of input 0 first.
IlvProducedPlanar ==
    IF ~IlvProceeds THEN <<>>
    ELSE [k \in 1 .. (IlvNumChunks * ilvNumInputs * ilvChunkSize) |->
            <<(k - 1) \div (IlvNumChunks * ilvChunkSize),
              (k - 1) % (IlvNumChunks * ilvChunkSize)>>]

\* The output buffer the copy loop of Interleaver::work writes: element k is
\* <<input, index in the converted buffer of that input>>.
IlvProduced ==
    IF ~IlvProceeds THEN <<>>
    ELSE [k \in 1 .. (IlvNumChunks * ilvNumInputs * ilvChunkSize) |->
            LET copy == (k - 1) \div ilvChunkSize
            IN  <<copy % ilvNumInputs,
                  (copy \div ilvNumInputs) * ilvChunkSize + ((k - 1) % ilvChunkSize)>>]

\* The bytes Interleaver::work consumes from every input port.
IlvConsumedBytes == IF ~IlvProceeds THEN 0 ELSE IlvElemsIn * ilvInSize

\* Interleaver::Interleaver(outputDType, numInputs), connected to upstream
\* blocks whose elements are ilvInSize bytes long.
IlvBuilt ==
    /\ ilvState = "built"
    /\ ilvNumInputs \in 1 .. MaxIlvChannels
    /\ ilvChunkSize = 1
    /\ ilvInSize \in 1 .. MaxInSize
    /\ ilvBytes = [c \in Chans(ilvNumInputs) |-> 0]
    /\ ilvOutElems = 0
    /\ ilvLast = [op |-> "ctor"]

\* A plausible slip: the size is stored without the check.
IlvSetChunkSizeUnchecked(chunkSize) == [err |-> "none", chunkSize |-> chunkSize]

\* Interleaver::setChunkSize: the error it ends with ("none" when it returns)
\* and the chunk size it leaves.
IlvSetChunkSizeResult(chunkSize) ==
    IF 0 = chunkSize
    THEN [err |-> "InvalidArgument", chunkSize |-> ilvChunkSize]
    ELSE [err |-> "none", chunkSize |-> chunkSize]

\* Interleaver::setChunkSize with any size.
IlvSetChunkSize ==
    /\ ilvState = "built"
    /\ \E chunkSize \in 0 .. MaxChunkSize :
        LET r == IlvSetChunkSizeResult(chunkSize)
        IN  /\ ilvChunkSize' = r.chunkSize
            /\ ilvLast' = IF r.err = "none"
                          THEN [op |-> "setChunkSize", arg |-> chunkSize, err |-> r.err]
                          ELSE [op |-> "setChunkSize", arg |-> chunkSize, err |-> r.err,
                                before |-> ilvChunkSize]
    /\ UNCHANGED <<ilvState, ilvNumInputs, ilvInSize, ilvBytes, ilvOutElems>>
    /\ UNCHANGED notIlv

\* An upstream block fills the (empty) front buffer of an input port.
IlvFeed ==
    /\ ilvState = "built"
    /\ \E c \in Chans(ilvNumInputs), n \in 1 .. MaxIlvIn :
        /\ ilvBytes[c] = 0
        /\ ilvBytes' = [ilvBytes EXCEPT ![c] = n * ilvInSize]
    /\ ilvLast' = [op |-> "feed"]
    /\ UNCHANGED <<ilvState, ilvNumInputs, ilvChunkSize, ilvInSize, ilvOutElems>>
    /\ UNCHANGED notIlv

\* The output port presents a buffer with room for n elements.
IlvOffer ==
    /\ ilvState = "built"
    /\ \E n \in 0 .. MaxIlvOut :
        /\ n # ilvOutElems
        /\ ilvOutElems' = n
    /\ ilvLast' = [op |-> "offer"]
    /\ UNCHANGED <<ilvState, ilvNumInputs, ilvChunkSize, ilvInSize, ilvBytes>>
    /\ UNCHANGED notIlv

\* Interleaver::work.
IlvWork ==
    /\ ilvState = "built"
    /\ ilvLast' = [op |-> "work", minElements |-> IlvMinElements,
                   numChunks |-> IF IlvMinElements = 0 THEN 0 ELSE IlvNumChunks,
                   chunkSize |-> ilvChunkSize, bytesBefore |-> ilvBytes,
                   outBefore |-> ilvOutElems, produced |-> IlvProduced,
                   consumed |-> IlvConsumedBytes \div ilvInSize]
    /\ ilvBytes' = [c \in Chans(ilvNumInputs) |-> ilvBytes[c] - IlvConsumedBytes]
    /\ ilvOutElems' = ilvOutElems - Len(IlvProduced)
    /\ UNCHANGED <<ilvState, ilvNumInputs, ilvChunkSize, ilvInSize>>
    /\ UNCHANGED notIlv

IlvNext == IlvSetChunkSize \/ IlvFeed \/ IlvOffer \/ IlvWork

----------------------------------------------------------------------------
(* Deinterleaver *)

\* convertedInput.elements(): the conversion keeps the element count.
DlvElemsIn == dlvBytes \div dlvInSize

\* workInfo().minElements of the Deinterleaver.
DlvMinElements == Min(dlvBytes, MinOver(dlvOutElems, dlvNumOutputs))

\* elemsOut: the least room over the outputs.
DlvElemsOut == MinOver(dlvOutElems, dlvNumOutputs)

\* numChunks of Deinterleaver::work.
DlvNumChunks ==
    Min(DlvElemsOut \div dlvChunkSize, (DlvElemsIn \div dlvChunkSize) \div dlvNumOutputs)

\* Whether Deinterleaver::work gets past its two early returns.
DlvProceeds == DlvMinElements # 0 /\ DlvNumChunks # 0

\* What the copy loop of Deinterleaver::work writes to output c: the indices
\* of the elements in the converted input buffer.
DlvProduced(c) ==
    IF ~DlvProceeds THEN <<>>
    ELSE [k \in 1 .. (DlvNumChunks * dlvChunkSize) |->
            (((k - 1) \div dlvChunkSize) * dlvNumOutputs + c) * dlvChunkSize
                + ((k - 1) % dlvChunkSize)]

\* The bytes Deinterleaver::work consumes from the input port.
DlvConsumedBytes == IF ~DlvProceeds THEN 0 ELSE DlvElemsIn * dlvInSize

\* Deinterleaver::Deinterleaver(outputDType, numOutputs), connected to an
\* upstream block whose elements are dlvInSize bytes long.
DlvBuilt ==
    /\ dlvState = "built"
    /\ dlvNumOutputs \in 1 .. MaxIlvChannels
    /\ dlvChunkSize = 1
    /\ dlvInSize \in 1 .. MaxInSize
    /\ dlvBytes = 0
    /\ dlvOutElems = [c \in Chans(dlvNumOutputs) |-> 0]
    /\ dlvLast = [op |-> "ctor"]

\* Deinterleaver::setChunkSize: the error it ends with ("none" when it returns)
\* and the chunk size it leaves.
DlvSetChunkSizeResult(chunkSize) ==
    IF 0 = chunkSize
    THEN [err |-> "InvalidArgument", chunkSize |-> dlvChunkSize]
    ELSE [err |-> "none", chunkSize |-> chunkSize]

\* Deinterleaver::setChunkSize with any size.
DlvSetChunkSize ==
    /\ dlvState = "built"
    /\ \E chunkSize \in 0 .. MaxChunkSize :
        LET r == DlvSetChunkSizeResult(chunkSize)
        IN  /\ dlvChunkSize' = r.chunkSize
            /\ dlvLast' = IF r.err = "none"
                          THEN [op |-> "setChunkSize", arg |-> chunkSize, err |-> r.err]
                          ELSE [op |-> "setChunkSize", arg |-> chunkSize, err |-> r.err,
                                before |-> dlvChunkSize]
    /\ UNCHANGED <<dlvState, dlvNumOutputs, dlvInSize, dlvBytes, dlvOutElems>>
    /\ UNCHANGED notDlv

\* The upstream block fills the (empty) front buffer of the input port.
DlvFeed ==
    /\ dlvState = "built"
    /\ dlvBytes = 0
    /\ \E n \in 1 .. MaxIlvIn : dlvBytes' = n * dlvInSize
    /\ dlvLast' = [op |-> "feed"]
    /\ UNCHANGED <<dlvState, dlvNumOutputs, dlvChunkSize, dlvInSize, dlvOutElems>>
    /\ UNCHANGED notDlv

\* An output port presents a buffer with room for n elements.
DlvOffer ==
    /\ dlvState = "built"
    /\ \E c \in Chans(dlvNumOutputs), n \in 0 .. MaxIlvOut :
        /\ n # dlvOutElems[c]
        /\ dlvOutElems' = [dlvOutElems EXCEPT ![c] = n]
    /\ dlvLast' = [op |-> "offer"]
    /\ UNCHANGED <<dlvState, dlvNumOutputs, dlvChunkSize, dlvInSize, dlvBytes>>
    /\ UNCHANGED notDlv

\* Deinterleaver::work.
DlvWork ==
    /\ dlvState = "built"
    /\ dlvLast' = [op |-> "work", minElements |-> DlvMinElements,
                   numChunks |-> IF DlvMinElements = 0 THEN 0 ELSE DlvNumChunks,
                   chunkSize |-> dlvChunkSize, bytesBefore |-> dlvBytes,
                   outBefore |-> dlvOutElems,
                   produced |-> [c \in Chans(dlvNumOutputs) |-> DlvProduced(c)],
                   consumed |-> DlvConsumedBytes \div dlvInSize]
    /\ dlvBytes' = dlvBytes - DlvConsumedBytes
    /\ dlvOutElems' = [c \in Chans(dlvNumOutputs) |-> dlvOutElems[c] - Len(DlvProduced(c))]
    /\ UNCHANGED <<dlvState, dlvNumOutputs, dlvChunkSize, dlvInSize>>
    /\ UNCHANGED notDlv

DlvNext == DlvSetChunkSize \/ DlvFeed \/ DlvOffer \/ DlvWork

----------------------------------------------------------------------------
(* An Interleaver, or a Deinterleaver *)

IlvInit == IlvBuilt /\ OnlyIlv

DlvInit == DlvBuilt /\ OnlyDlv

InterleaveInit == IlvInit \/ DlvInit

InterleaveNext == IlvNext \/ DlvNext

SpecInterleave == InterleaveInit /\ [][InterleaveNext]_vars

\* C1: every work() invocation of the Interleaver consumes from each input
\* exactly the numChunks x chunkSize elements it copied from it, and every
\* work() invocation of the Deinterleaver consumes exactly the
\* numChunks x chunkSize x numOutputs elements it copied to its outputs.
C1_ConsumedIsCopied ==
    /\ (ilvState = "built" /\ ilvLast.op = "work") =>
           ilvLast.consumed * ilvNumInputs = Len(ilvLast.produced)
    /\ (dlvState = "built" /\ dlvLast.op = "work") =>
           dlvLast.consumed = dlvLast.numChunks * dlvLast.chunkSize * dlvNumOutputs

\* C15: an Interleaver work() invocation takes numChunks =
\* min(floor(m/chunkSize), floor(c/chunkSize/numInputs)) chunks per input, m
\* being the fewest converted elements over the inputs and c the room in the
\* output buffer; it produces numChunks*chunkSize*numInputs elements, at most
\* c, and chunk j of input i lies at the output positions
\* (j*numInputs+i)*chunkSize up to (j*numInputs+i+1)*chunkSize.
C15_InterleaverLayout ==
    (ilvState = "built" /\ ilvLast.op = "work") =>
        LET m == MinOver([c \in Chans(ilvNumInputs) |->
                             ilvLast.bytesBefore[c] \div ilvInSize], ilvNumInputs)
            numChunks == Min(m \div ilvLast.chunkSize,
                             (ilvLast.outBefore \div ilvLast.chunkSize) \div ilvNumInputs)
        IN  /\ ilvLast.numChunks = numChunks
            /\ Len(ilvLast.produced) = numChunks * ilvLast.chunkSize * ilvNumInputs
            /\ Len(ilvLast.produced) <= ilvLast.outBefore
            /\ \A j \in 0 .. (numChunks - 1) : \A i \in Chans(ilvNumInputs) :
                   \A e \in 0 .. (ilvLast.chunkSize - 1) :
                       ilvLast.produced[(j * ilvNumInputs + i) * ilvLast.chunkSize + e + 1]
                           = <<i, j * ilvLast.chunkSize + e>>

\* C15 witness: work() interleaved two chunks of each of two inputs that held
\* buffers of different lengths.
C15_Witness ==
    /\ ilvState = "built"
    /\ ilvLast.op = "work"
    /\ ilvNumInputs >= 2
    /\ ilvLast.numChunks >= 2
    /\ ilvLast.bytesBefore[0] # ilvLast.bytesBefore[1]
    /\ Len(ilvLast.produced) > 0

\* C20: the chunk size of an Interleaver or Deinterleaver is 1 after
\* construction and positive in every state, and setChunkSize(0) fails with an
\* InvalidArgument error.
C20_ChunkSizePositive ==
    /\ ilvState = "built" =>
           /\ ilvChunkSize > 0
           /\ ilvLast.op = "ctor" => ilvChunkSize = 1
           /\ (ilvLast.op = "setChunkSize" /\ ilvLast.arg = 0) =>
                  ilvLast.err = "InvalidArgument"
    /\ dlvState = "built" =>
           /\ dlvChunkSize > 0
           /\ dlvLast.op = "ctor" => dlvChunkSize = 1
           /\ (dlvLast.op = "setChunkSize" /\ dlvLast.arg = 0) =>
                  dlvLast.err = "InvalidArgument"

\* C20 witness: setChunkSize(0) has just failed on an Interleaver whose chunk
\* size an earlier call had raised above the default.
C20_Witness ==
    /\ ilvState = "built"
    /\ ilvLast.op = "setChunkSize"
    /\ ilvLast.arg = 0
    /\ ilvLast.err = "InvalidArgument"
    /\ ilvChunkSize = MaxChunkSize

----------------------------------------------------------------------------
(* Repeat *)

\* workInfo().minElements of Repeat.
RpMinElements == Min(rpInElems, rpOutElems)

\* A plausible slip: the quotient is rounded up, so the last repetition run
\* may not fit the output buffer.
RpQuotientRoundedUp == (rpOutElems + rpRepeatCount - 1) \div rpRepeatCount

\* output->elements() / _repeatCount, for a non-zero _repeatCount.
RpQuotient == rpOutElems \div rpRepeatCount

\* The body of Repeat::work after its early return, given the value of
\* output->elements() / _repeatCount: the elements it consumes and the output
\* it writes (element k is the index in the input buffer it was copied from).
RpCopy(quotient) ==
    LET elemsToRepeat == Min(rpInElems, quotient)
        elemsOut == elemsToRepeat * rpRepeatCount
    IN  [consumed |-> elemsToRepeat,
         produced |-> [k \in 1 .. elemsOut |-> (k - 1) \div rpRepeatCount]]

\* Repeat::work: its possible outcomes.  The division by a zero _repeatCount
\* is undefined: the build either traps, or goes on with some quotient.
RpOutcomes ==
    IF RpMinElements = 0
    THEN {[undefined |-> FALSE, trapped |-> FALSE, consumed |-> 0, produced |-> <<>>]}
    ELSE IF rpRepeatCount = 0
    THEN {[undefined |-> TRUE, trapped |-> TRUE, consumed |-> 0, produced |-> <<>>]}
         \cup {[undefined |-> TRUE, trapped |-> FALSE,
                consumed |-> RpCopy(q).consumed, produced |-> RpCopy(q).produced] :
               q \in 0 .. rpOutElems}
    ELSE {[undefined |-> FALSE, trapped |-> FALSE,
           consumed |-> RpCopy(RpQuotient).consumed,
           produced |-> RpCopy(RpQuotient).produced]}

\* Repeat::Repeat(dtype, repeatCount) with any repeat count.
RpBuilt ==
    /\ rpState = "built"
    /\ rpRepeatCount \in 0 .. MaxRepeat
    /\ rpOutReserve = rpRepeatCount
    /\ rpInElems = 0
    /\ rpOutElems = 0
    /\ rpLast = [op |-> "ctor"]

RpInit == RpBuilt /\ OnlyRp

\* Repeat::setRepeatCount with any repeat count.
RpSetRepeatCount ==
    /\ rpState = "built"
    /\ \E newRepeatCount \in 0 .. MaxRepeat :
        /\ rpRepeatCount' = newRepeatCount
        /\ rpOutReserve' = newRepeatCount
        /\ rpLast' = [op |-> "setRepeatCount", arg |-> newRepeatCount, err |-> "none"]
    /\ UNCHANGED <<rpState, rpInElems, rpOutElems>>
    /\ UNCHANGED notRp

\* The upstream block fills the (empty) front buffer of the input port.
RpFeed ==
    /\ rpState = "built"
    /\ rpInElems = 0
    /\ \E n \in 1 .. MaxRepeatIn : rpInElems' = n
    /\ rpLast' = [op |-> "feed"]
    /\ UNCHANGED <<rpState, rpRepeatCount, rpOutReserve, rpOutElems>>
    /\ UNCHANGED notRp

\* The output port presents a buffer with room for n elements.
RpOffer ==
    /\ rpState = "built"
    /\ \E n \in 0 .. MaxRepeatOut :
        /\ n # rpOutElems
        /\ rpOutElems' = n
    /\ rpLast' = [op |-> "offer"]
    /\ UNCHANGED <<rpState, rpRepeatCount, rpOutReserve, rpInElems>>
    /\ UNCHANGED notRp

\* Repeat::work.
RpWork ==
    /\ rpState = "built"
    /\ \E w \in RpOutcomes :
        /\ rpLast' = [op |-> "work", elemsIn |-> rpInElems, elemsOut |-> rpOutElems,
                      repeatCount |-> rpRepeatCount, undefined |-> w.undefined,
                      trapped |-> w.trapped, consumed |-> w.consumed,
                      produced |-> w.produced]
        /\ rpState' = IF w.trapped THEN "crashed" ELSE "built"
        /\ rpInElems' = rpInElems - w.consumed
        /\ rpOutElems' = rpOutElems - Len(w.produced)
    /\ UNCHANGED <<rpRepeatCount, rpOutReserve>>
    /\ UNCHANGED notRp

RpNext == RpSetRepeatCount \/ RpFeed \/ RpOffer \/ RpWork

SpecRepeat == RpInit /\ [][RpNext]_vars

\* C9: a Repeat work() invocation that returns, with e input elements, room
\* for c output elements and repeatCount r, consumes k elements and produces
\* k*r elements: each consumed element r times in a row, in input order, so
\* never a partial run; and k = min(e, floor(c/r)) wherever that is defined
\* (r >= 1).
C9_RepeatWholeRuns ==
    (rpLast.op = "work" /\ ~rpLast.trapped) =>
        /\ rpLast.repeatCount >= 1 =>
               rpLast.consumed = Min(rpLast.elemsIn, rpLast.elemsOut \div rpLast.repeatCount)
        /\ Len(rpLast.produced) = rpLast.consumed * rpLast.repeatCount
        /\ Len(rpLast.produced) <= rpLast.elemsOut
        /\ \A i \in 0 .. (rpLast.consumed - 1) : \A j \in 1 .. rpLast.repeatCount :
               rpLast.produced[i * rpLast.repeatCount + j] = i

\* C9 witness: work() repeated more than one element, more than once each,
\* into an output buffer with room left for less than one more run.
C9_Witness ==
    /\ rpLast.op = "work"
    /\ rpLast.repeatCount >= 2
    /\ rpLast.consumed >= 2
    /\ rpLast.consumed < rpLast.elemsIn
    /\ rpLast.elemsOut % rpLast.repeatCount # 0

\* C10: work() of a successfully constructed block never raises an error and
\* never performs an undefined operation, whatever the setters that returned
\* without error have set.
C10_WorkNeverUndefined ==
    rpLast.op = "work" => ~rpLast.undefined

----------------------------------------------------------------------------
(* Converter *)

\* workInfo().minElements of the Converter: the input port is untyped, so its
\* elements() are bytes.
CvMinElements == Min(cvInBytes, cvOutElems)

\* buff.elements(): the elements of the input buffer in its own data type.
CvBuffElements == cvInBytes \div cvInSize

\* Converter::work: the bytes it consumes, the messages it posts and the
\* elements it produces.
CvWorkResult ==
    [consumedBytes |-> cvInBytes,
     posted |-> IF cvMsgs > 0 THEN 1 ELSE 0,
     produced |-> IF cvInBytes # 0 THEN Min(cvOutElems, CvBuffElements) ELSE 0]

\* Converter::Converter(dtype), connected to an upstream block whose elements
\* are cvInSize bytes long.
CvInit ==
    /\ cvState = "built"
    /\ cvInSize \in 1 .. MaxCvInSize
    /\ cvInBytes = 0
    /\ cvOutElems = 0
    /\ cvMsgs = 0
    /\ cvLast = [op |-> "ctor"]
    /\ OnlyCv

\* The upstream block fills the (empty) front buffer of the input port.
CvFeed ==
    /\ cvState = "built"
    /\ cvInBytes = 0
    /\ \E n \in 1 .. MaxCvIn : cvInBytes' = n * cvInSize
    /\ cvLast' = [op |-> "feed"]
    /\ UNCHANGED <<cvState, cvInSize, cvOutElems, cvMsgs>>
    /\ UNCHANGED notCv

\* The upstream block posts a packet message to the input port.
CvPostMessage ==
    /\ cvState = "built"
    /\ cvMsgs < MaxCvMsgs
    /\ cvMsgs' = cvMsgs + 1
    /\ cvLast' = [op |-> "message"]
    /\ UNCHANGED <<cvState, cvInSize, cvInBytes, cvOutElems>>
    /\ UNCHANGED notCv

\* The output port presents a buffer with room for n elements.
CvOffer ==
    /\ cvState = "built"
    /\ \E n \in 0 .. MaxCvOut :
        /\ n # cvOutElems
        /\ cvOutElems' = n
    /\ cvLast' = [op |-> "offer"]
    /\ UNCHANGED <<cvState, cvInSize, cvInBytes, cvMsgs>>
    /\ UNCHANGED notCv

\* Converter::work.
CvWork ==
    /\ cvState = "built"
    /\ cvLast' = [op |-> "work", minElements |-> CvMinElements,
                  elemsIn |-> CvBuffElements, elemsOut |-> cvOutElems,
                  consumed |-> CvWorkResult.consumedBytes \div cvInSize,
                  posted |-> CvWorkResult.posted,
                  produced |-> CvWorkResult.produced]
    /\ cvInBytes' = cvInBytes - CvWorkResult.consumedBytes
    /\ cvMsgs' = cvMsgs - CvWorkResult.posted
    /\ cvOutElems' = cvOutElems - CvWorkResult.produced
    /\ UNCHANGED <<cvState, cvInSize>>
    /\ UNCHANGED notCv

CvNext == CvFeed \/ CvPostMessage \/ CvOffer \/ CvWork

SpecConverter == CvInit /\ [][CvNext]_vars

\* C30: in every Converter work() the input consumed is exactly the elements
\* that were converted and produced: no input element is dropped when the
\* output buffer offers fewer elements than the input buffer holds.
C30_ConsumedIsConverted ==
    cvLast.op = "work" => cvLast.consumed = cvLast.produced

----------------------------------------------------------------------------
(* The element types of the elementwise blocks and kernels: a signed and an *)
(* unsigned integer type two bits wide, and a floating-point type whose     *)
(* values are counted in units of its smallest positive normal value.       *)

ElemTypes == {"int", "uint", "float"}

\* The values of an element type.
TypeValues(t) ==
    IF t = "int" THEN (-2) .. 1
    ELSE IF t = "uint" THEN 0 .. 3
    ELSE (-1) .. 2

\* std::numeric_limits<T>::min(): the least value of an integer type, the
\* smallest positive normal value of a floating-point type.
NumericMin(t) ==
    IF t = "int" THEN -2
    ELSE IF t = "uint" THEN 0
    ELSE 1

\* std::numeric_limits<T>::max().
NumericMax(t) ==
    IF t = "int" THEN 1
    ELSE IF t = "uint" THEN 3
    ELSE 2

\* All sequences of at most n values of S.
SeqsUpTo(n, S) == UNION {[1 .. k -> S] : k \in 0 .. n}

\* The first n entries of a sequence, and the entries after them.
Take(s, n) == [i \in 1 .. n |-> s[i]]
Drop(s, n) == [i \in 1 .. (Len(s) - n) |-> s[n + i]]

----------------------------------------------------------------------------
(* Clamp *)

\* The scalar clamp of one element: (in < lo) ? lo : (hi < in) ? hi : in.
ClampElem(x, lo, hi) == IF x < lo THEN lo ELSE IF hi < x THEN hi ELSE x

\* The function getClampFcn returns, applied to num elements.
ClampFcn(in, lo, hi, num) == [elem \in 1 .. num |-> ClampElem(in[elem], lo, hi)]

\* Clamp::validateMinMax: TRUE when it returns, FALSE when it throws
\* InvalidArgumentException.
ValidateMinMax(minVal, maxVal) == ~(minVal > maxVal)

\* A plausible slip: setMin assigns before it validates.
ClSetMinAssignFirst(newMin) ==
    IF ~ValidateMinMax(newMin, clMax)
    THEN [err |-> "InvalidArgument", min |-> newMin, max |-> clMax]
    ELSE [err |-> "none", min |-> newMin, max |-> clMax]

\* Clamp::setMin: the error it ends with ("none" when it returns) and the
\* bounds it leaves.
ClSetMinResult(newMin) ==
    IF ~ValidateMinMax(newMin, clMax)
    THEN [err |-> "InvalidArgument", min |-> clMin, max |-> clMax]
    ELSE [err |-> "none", min |-> newMin, max |-> clMax]

\* Clamp::setMax.
ClSetMaxResult(newMax) ==
    IF ~ValidateMinMax(clMin, newMax)
    THEN [err |-> "InvalidArgument", min |-> clMin, max |-> clMax]
    ELSE [err |-> "none", min |-> clMin, max |-> newMax]

\* A plausible slip: setMinAndMax fails with the error kind of an index.
ClSetMinAndMaxRange(newMin, newMax) ==
    IF ~ValidateMinMax(newMin, newMax)
    THEN [err |-> "Range", min |-> clMin, max |-> clMax]
    ELSE [err |-> "none", min |-> newMin, max |-> newMax]

\* Clamp::setMinAndMax.
ClSetMinAndMaxResult(newMin, newMax) ==
    IF ~ValidateMinMax(newMin, newMax)
    THEN [err |-> "InvalidArgument", min |-> clMin, max |-> clMax]
    ELSE [err |-> "none", min |-> newMin, max |-> newMax]

\* The configuration of the Clamp.
ClConfig == [min |-> clMin, max |-> clMax, clampMin |-> clClampMin,
             clampMax |-> clClampMax]

\* workInfo().minElements of the Clamp.
ClMinElements == Min(Len(clIn), clOutElems)

\* The bounds Clamp::work hands to the clamp function.
ClLo == IF clClampMin THEN clMin ELSE NumericMin(clType)
ClHi == IF clClampMax THEN clMax ELSE NumericMax(clType)

\* Clamp<T>::Clamp(dimension) for every element type.
ClInit ==
    /\ clState = "built"
    /\ clType \in ElemTypes
    /\ clMin = 0
    /\ clMax = 0
    /\ clClampMin = TRUE
    /\ clClampMax = TRUE
    /\ clIn = <<>>
    /\ clOutElems = 0
    /\ clLast = [op |-> "ctor"]
    /\ OnlyCl

\* What a setter call leaves in clLast: a failed call keeps the configuration
\* it found.
ClSetterCall(op, err) ==
    IF err = "none" THEN [op |-> op, err |-> err]
    ELSE [op |-> op, err |-> err, before |-> ClConfig]

\* The record of a call of setMin, setMax or setMinAndMax: a failed call also
\* keeps the bounds the call asked for.
ClBoundsCall(op, err, wantMin, wantMax) ==
    IF err = "none" THEN ClSetterCall(op, err)
    ELSE [op |-> op, err |-> err, before |-> ClConfig, wantMin |-> wantMin,
          wantMax |-> wantMax]

\* A call of setMin, setMax or setMinAndMax with any values of the type.
ClSetBounds ==
    /\ clState = "built"
    /\ \E call \in {[op |-> "setMin", r |-> ClSetMinResult(newMin),
                        wantMin |-> newMin, wantMax |-> clMax] :
                       newMin \in TypeValues(clType)}
                 \cup {[op |-> "setMax", r |-> ClSetMaxResult(newMax),
                        wantMin |-> clMin, wantMax |-> newMax] :
                       newMax \in TypeValues(clType)}
                 \cup {[op |-> "setMinAndMax",
                        r |-> ClSetMinAndMaxResult(newMin, newMax),
                        wantMin |-> newMin, wantMax |-> newMax] :
                       newMin \in TypeValues(clType), newMax \in TypeValues(clType)} :
        /\ clMin' = call.r.min
        /\ clMax' = call.r.max
        /\ clLast' = ClBoundsCall(call.op, call.r.err, call.wantMin, call.wantMax)
    /\ UNCHANGED <<clState, clType, clClampMin, clClampMax, clIn, clOutElems>>
    /\ UNCHANGED notCl

\* A call of setClampMin or setClampMax.
ClSetFlag ==
    /\ clState = "built"
    /\ \E flag \in BOOLEAN :
        \/ /\ clClampMin' = flag
           /\ clLast' = ClSetterCall("setClampMin", "none")
           /\ UNCHANGED clClampMax
        \/ /\ clClampMax' = flag
           /\ clLast' = ClSetterCall("setClampMax", "none")
           /\ UNCHANGED clClampMin
    /\ UNCHANGED <<clState, clType, clMin, clMax, clIn, clOutElems>>
    /\ UNCHANGED notCl

\* The upstream block fills the (empty) front buffer of the input port.
ClFeed ==
    /\ clState = "built"
    /\ clIn = <<>>
    /\ \E buffer \in SeqsUpTo(MaxElemIn, TypeValues(clType)) :
        /\ buffer # <<>>
        /\ clIn' = buffer
    /\ clLast' = [op |-> "feed"]
    /\ UNCHANGED <<clState, clType, clMin, clMax, clClampMin, clClampMax, clOutElems>>
    /\ UNCHANGED notCl

\* The output port presents a buffer with room for n elements.
ClOffer ==
    /\ clState = "built"
    /\ \E n \in 0 .. MaxElemOut :
        /\ n # clOutElems
        /\ clOutElems' = n
    /\ clLast' = [op |-> "offer"]
    /\ UNCHANGED <<clState, clType, clMin, clMax, clClampMin, clClampMax, clIn>>
    /\ UNCHANGED notCl

\* Clamp::work.
ClWork ==
    /\ clState = "built"
    /\ clLast' = [op |-> "work", minElements |-> ClMinElements,
                  in |-> Take(clIn, ClMinElements),
                  consumed |-> ClMinElements,
                  produced |-> ClampFcn(clIn, ClLo, ClHi, ClMinElements)]
    /\ clIn' = Drop(clIn, ClMinElements)
    /\ clOutElems' = clOutElems - ClMinElements
    /\ UNCHANGED <<clState, clType, clMin, clMax, clClampMin, clClampMax>>
    /\ UNCHANGED notCl

ClNext == ClSetBounds \/ ClSetFlag \/ ClFeed \/ ClOffer \/ ClWork

SpecClamp == ClInit /\ [][ClNext]_vars

ClBoundsSetters == {"setMin", "setMax", "setMinAndMax"}

\* C24: with clampMin and clampMax both disabled, Clamp::work outputs every
\* input element unchanged, for every value of every element type, whatever
\* min and max are.
C24_DisabledPassesThrough ==
    (clLast.op = "work" /\ ~clClampMin /\ ~clClampMax) =>
        clLast.produced = clLast.in

\* C25 as stated: a call of setMin, setMax or setMinAndMax that would make
\* min > max fails with a Range error.
C25_BoundsRejectedAsRange ==
    clLast.op \in ClBoundsSetters =>
        /\ clLast.err = "none" => clMin <= clMax
        /\ clLast.err # "none" =>
               (clLast.wantMin > clLast.wantMax /\ clLast.err = "Range")

\* C25 amended: a call of setMin, setMax or setMinAndMax that would make
\* min > max fails with an InvalidArgument error, and no other call of them
\* fails.
C25_BoundsRejectedAsInvalidArgument ==
    clLast.op \in ClBoundsSetters =>
        /\ clLast.err = "none" => clMin <= clMax
        /\ clLast.err # "none" =>
               (clLast.wantMin > clLast.wantMax /\ clLast.err = "InvalidArgument")

\* C25 witness: setMinAndMax has just failed for a pair with min > max that
\* shares no value with the bounds in force.
C25_Witness ==
    /\ clLast.op = "setMinAndMax"
    /\ clLast.err = "InvalidArgument"
    /\ clLast.wantMin > clLast.wantMax
    /\ clLast.wantMin # clLast.before.min
    /\ clLast.wantMax # clLast.before.max

----------------------------------------------------------------------------
(* Mute *)

\* workInfo().minElements of the Mute.
MuMinElements == Min(muIn, muOutElems)

\* Mute::work: the elements it consumes and produces, and whether it wrote
\* zeros (memset) or the input (memcpy).
MuWorkResult ==
    IF MuMinElements = 0
    THEN [consumed |-> 0, produced |-> 0, zeros |-> FALSE]
    ELSE [consumed |-> MuMinElements, produced |-> MuMinElements, zeros |-> muMute]

\* Mute::Mute(dtype): the constructor does not initialise _mute.
MuInit ==
    /\ muState = "built"
    /\ muMute \in BOOLEAN
    /\ muIn = 0
    /\ muOutElems = 0
    /\ muLast = [op |-> "ctor"]
    /\ OnlyMu

\* Mute::setMute.
MuSetMute ==
    /\ muState = "built"
    /\ \E mute \in BOOLEAN :
        /\ muMute' = mute
        /\ muLast' = [op |-> "setMute", arg |-> mute]
    /\ UNCHANGED <<muState, muIn, muOutElems>>
    /\ UNCHANGED notMu

\* The upstream block fills the (empty) front buffer of the input port.
MuFeed ==
    /\ muState = "built"
    /\ muIn = 0
    /\ \E n \in 1 .. MaxElemIn : muIn' = n
    /\ muLast' = [op |-> "feed"]
    /\ UNCHANGED <<muState, muMute, muOutElems>>
    /\ UNCHANGED notMu

\* The output port presents a buffer with room for n elements.
MuOffer ==
    /\ muState = "built"
    /\ \E n \in 0 .. MaxElemOut :
        /\ n # muOutElems
        /\ muOutElems' = n
    /\ muLast' = [op |-> "offer"]
    /\ UNCHANGED <<muState, muMute, muIn>>
    /\ UNCHANGED notMu

\* Mute::work.
MuWork ==
    /\ muState = "built"
    /\ muLast' = [op |-> "work", minElements |-> MuMinElements, mute |-> muMute,
                  consumed |-> MuWorkResult.consumed,
                  produced |-> MuWorkResult.produced, zeros |-> MuWorkResult.zeros]
    /\ muIn' = muIn - MuWorkResult.consumed
    /\ muOutElems' = muOutElems - MuWorkResult.produced
    /\ UNCHANGED <<muState, muMute>>
    /\ UNCHANGED notMu

MuNext == MuSetMute \/ MuFeed \/ MuOffer \/ MuWork

SpecMute == MuInit /\ [][MuNext]_vars

----------------------------------------------------------------------------
(* MinMax *)

\* workInfo().minAllElements: the fewest elements over all the input and
\* output ports.
MmMinAllElements ==
    Min(MinOver(mmIn, mmNumInputs), Min(mmOutElems.min, mmOutElems.max))

\* A plausible slip: every input is consumed whole.
MmConsumedWhole(elems) ==
    [c \in Chans(mmNumInputs) |-> IF elems = 0 THEN 0 ELSE mmIn[c]]

\* MinMax::work: what the loop at its end consumes from each input.
MmConsumedEach(elems) == [c \in Chans(mmNumInputs) |-> elems]

\* MinMax::work: the elements it consumes from each input and produces on
\* each output.
MmWorkResult ==
    [consumed |-> MmConsumedEach(MmMinAllElements),
     produced |-> [min |-> MmMinAllElements, max |-> MmMinAllElements]]

\* MinMax<T>::MinMax(dimension, numInputs) with at least one input.
MmInit ==
    /\ mmState = "built"
    /\ mmNumInputs \in 1 .. MaxMmInputs
    /\ mmIn = [c \in Chans(mmNumInputs) |-> 0]
    /\ mmOutElems = [min |-> 0, max |-> 0]
    /\ mmConsumed = [c \in Chans(mmNumInputs) |-> 0]
    /\ mmProduced = [min |-> 0, max |-> 0]
    /\ mmLast = [op |-> "ctor"]
    /\ OnlyMm

\* The source of a channel fills the (empty) front buffer of that input port.
MmFeed ==
    /\ mmState = "built"
    /\ \E c \in Chans(mmNumInputs), n \in 1 .. MaxMmIn :
        /\ mmIn[c] = 0
        /\ mmConsumed[c] + n <= MaxMmStream
        /\ mmIn' = [mmIn EXCEPT ![c] = n]
    /\ mmLast' = [op |-> "feed"]
    /\ UNCHANGED <<mmState, mmNumInputs, mmOutElems, mmConsumed, mmProduced>>
    /\ UNCHANGED notMm

\* An output port presents a buffer with room for n elements.
MmOffer ==
    /\ mmState = "built"
    /\ \E port \in {"min", "max"}, n \in 0 .. MaxMmOut :
        /\ n # mmOutElems[port]
        /\ mmOutElems' = [mmOutElems EXCEPT ![port] = n]
    /\ mmLast' = [op |-> "offer"]
    /\ UNCHANGED <<mmState, mmNumInputs, mmIn, mmConsumed, mmProduced>>
    /\ UNCHANGED notMm

\* MinMax::work.
MmWork ==
    /\ mmState = "built"
    /\ mmLast' = [op |-> "work", minAllElements |-> MmMinAllElements,
                  inBefore |-> mmIn, outBefore |-> mmOutElems,
                  consumed |-> MmWorkResult.consumed,
                  produced |-> MmWorkResult.produced]
    /\ mmIn' = [c \in Chans(mmNumInputs) |-> mmIn[c] - MmWorkResult.consumed[c]]
    /\ mmOutElems' = [port \in {"min", "max"} |->
                         mmOutElems[port] - MmWorkResult.produced[port]]
    /\ mmConsumed' = [c \in Chans(mmNumInputs) |->
                         mmConsumed[c] + MmWorkResult.consumed[c]]
    /\ mmProduced' = [port \in {"min", "max"} |->
                         mmProduced[port] + MmWorkResult.produced[port]]
    /\ UNCHANGED <<mmState, mmNumInputs>>
    /\ UNCHANGED notMm

MmNext == MmFeed \/ MmOffer \/ MmWork

SpecMinMax == MmInit /\ [][MmNext]_vars

----------------------------------------------------------------------------
(* The non-forwarding blocks: the claims. *)

\* C11: a work() invocation of a non-forwarding block (Clamp, Mute, Repeat,
\* MinMax, Interleaver, Deinterleaver, Converter) in which minElements is 0
\* consumes nothing from any input and produces or posts nothing on any
\* output.
C11_IdleWorkHasNoEffect ==
    /\ (clLast.op = "work" /\ clLast.minElements = 0) =>
           clLast.consumed = 0 /\ clLast.produced = <<>>
    /\ (muLast.op = "work" /\ muLast.minElements = 0) =>
           muLast.consumed = 0 /\ muLast.produced = 0
    /\ (rpLast.op = "work" /\ Min(rpLast.elemsIn, rpLast.elemsOut) = 0) =>
           rpLast.consumed = 0 /\ rpLast.produced = <<>>
    /\ (mmLast.op = "work" /\ mmLast.minAllElements = 0) =>
           /\ \A c \in Chans(mmNumInputs) : mmLast.consumed[c] = 0
           /\ mmLast.produced = [min |-> 0, max |-> 0]
    /\ (ilvLast.op = "work" /\ ilvLast.minElements = 0) =>
           ilvLast.consumed = 0 /\ ilvLast.produced = <<>>
    /\ (dlvLast.op = "work" /\ dlvLast.minElements = 0) =>
           /\ dlvLast.consumed = 0
           /\ \A c \in Chans(dlvNumOutputs) : dlvLast.produced[c] = <<>>
    /\ (cvLast.op = "work" /\ cvLast.minElements = 0) =>
           cvLast.consumed = 0 /\ cvLast.posted = 0 /\ cvLast.produced = 0

\* C12: every MinMax work() invocation consumes the same number k of
\* elements from every input, k being the fewest elements over all its ports,
\* and produces k elements on "min" and on "max"; so the elements consumed so
\* far are the same on every input and equal what each output has produced.
C12_MinMaxEqualCounts ==
    /\ mmLast.op = "work" =>
           \E k \in 0 .. MaxMmIn :
               /\ \A c \in Chans(mmNumInputs) : k <= mmLast.inBefore[c]
               /\ k <= mmLast.outBefore.min /\ k <= mmLast.outBefore.max
               /\ \/ \E c \in Chans(mmNumInputs) : k = mmLast.inBefore[c]
                  \/ k = mmLast.outBefore.min
                  \/ k = mmLast.outBefore.max
               /\ \A c \in Chans(mmNumInputs) : mmLast.consumed[c] = k
               /\ mmLast.produced = [min |-> k, max |-> k]
    /\ mmState = "built" =>
           \A c \in Chans(mmNumInputs) :
               mmConsumed[c] = mmProduced.min /\ mmConsumed[c] = mmProduced.max

\* C12 witness: a second work() made progress on the largest MinMax while its
\* inputs held buffers of different lengths.
C12_Witness ==
    /\ mmLast.op = "work"
    /\ mmNumInputs = MaxMmInputs
    /\ mmLast.consumed[0] > 0
    /\ \E c \in Chans(mmNumInputs) : mmLast.inBefore[c] # mmLast.inBefore[0]
    /\ mmConsumed[0] > mmLast.consumed[0]

----------------------------------------------------------------------------
(* The SIMD kernels minmax and clamp, and their scalar references.  An      *)
(* output array is a sequence of slots: <<>> until a kernel writes the      *)
(* slot, <<v>> once it has written the value v.                             *)

Max(a, b) == IF a >= b THEN a ELSE b

\* The least and the greatest value of a non-empty set.
Least(S) == CHOOSE x \in S : \A y \in S : x <= y
Greatest(S) == CHOOSE x \in S : \A y \in S : x >= y

\* An output array of len slots before the kernel runs.
Unwritten(len) == [i \in 1 .. len |-> <<>>]

\* The values the input arrays of minmax are filled with.
KrValues(t) == IF t = "uint" THEN {0, 1} ELSE {-1, 1}

\* minmaxUnoptimized, called with the pointers advanced by `from` elements:
\* it writes the slots from+1 .. from+len of both output arrays.
MinMaxUnoptimized(inPtrs, out, from, numInputs, len) ==
    [min |-> [i \in 1 .. Len(out.min) |->
                IF from < i /\ i <= from + len
                THEN <<Least({inPtrs[k][i] : k \in 1 .. numInputs})>>
                ELSE out.min[i]],
     max |-> [i \in 1 .. Len(out.max) |->
                IF from < i /\ i <= from + len
                THEN <<Greatest({inPtrs[k][i] : k \in 1 .. numInputs})>>
                ELSE out.max[i]]]

\* The first loop of detail::minmax: numSIMDFrames frames of simdSize
\* elements, regMin starting from RegMax and regMax from RegMin.
MinMaxFrames(inPtrs, out, numInputs, len, simdSize, t) ==
    LET numSIMDFrames == len \div simdSize
    IN  [min |-> [i \in 1 .. Len(out.min) |->
                    IF i <= numSIMDFrames * simdSize
                    THEN <<Least({NumericMax(t)} \cup {inPtrs[k][i] : k \in 1 .. numInputs})>>
                    ELSE out.min[i]],
         max |-> [i \in 1 .. Len(out.max) |->
                    IF i <= numSIMDFrames * simdSize
                    THEN <<Greatest({NumericMin(t)} \cup {inPtrs[k][i] : k \in 1 .. numInputs})>>
                    ELSE out.max[i]]]

\* The second loop of detail::minmax: it calls minmaxUnoptimized on what the
\* frames left, once per value of frameIndex below numSIMDFrames.
RECURSIVE MinMaxRemainder(_, _, _, _, _, _)
MinMaxRemainder(inPtrs, out, from, numInputs, len, frameIndexes) ==
    IF frameIndexes = 0 THEN out
    ELSE MinMaxRemainder(inPtrs, MinMaxUnoptimized(inPtrs, out, from, numInputs, len),
                         from, numInputs, len, frameIndexes - 1)

\* detail::minmax, the vectorised kernel.
MinMaxSimd(inPtrs, out, numInputs, len, simdSize, t) ==
    LET numSIMDFrames == len \div simdSize
    IN  MinMaxRemainder(inPtrs, MinMaxFrames(inPtrs, out, numInputs, len, simdSize, t),
                        numSIMDFrames * simdSize, numInputs,
                        len - numSIMDFrames * simdSize, numSIMDFrames)

\* clampUnoptimized, called with the pointers advanced by `from` elements.
ClampUnoptimized(in, out, from, lo, hi, len) ==
    [i \in 1 .. Len(out) |->
        IF from < i /\ i <= from + len THEN <<ClampElem(in[i], lo, hi)>> ELSE out[i]]

\* xsimd::clip on one lane: min(hi, max(x, lo)).
Clip(x, lo, hi) == Min(hi, Max(x, lo))

\* detail::clamp, the vectorised kernel: numSIMDFrames frames, then the
\* remaining elements with clampUnoptimized.
ClampSimd(in, out, lo, hi, len, simdSize) ==
    LET numSIMDFrames == len \div simdSize
        frames == [i \in 1 .. Len(out) |->
                     IF i <= numSIMDFrames * simdSize THEN <<Clip(in[i], lo, hi)>>
                     ELSE out[i]]
    IN  ClampUnoptimized(in, frames, numSIMDFrames * simdSize, lo, hi,
                         len - numSIMDFrames * simdSize)

\* The arguments of a kernel call: minmax with 1 to MaxKrInputs input arrays
\* of 0 to MaxKrLen elements, or clamp with one input array and lo <= hi.
KrInit ==
    /\ krType \in ElemTypes
    /\ krWidth \in 2 .. MaxSimdSize
    /\ \/ /\ \E numInputs \in 1 .. MaxKrInputs, len \in 0 .. MaxKrLen :
                krIn \in [1 .. numInputs -> [1 .. len -> KrValues(krType)]]
          /\ krLo = 0
          /\ krHi = 0
          /\ krLast = [op |-> "none", kernel |-> "minmax"]
       \/ /\ \E in \in SeqsUpTo(MaxKrLen, TypeValues(krType)) : krIn = <<in>>
          /\ krLo \in TypeValues(krType)
          /\ krHi \in TypeValues(krType)
          /\ krLo <= krHi
          /\ krLast = [op |-> "none", kernel |-> "clamp"]
    /\ OnlyKr

\* minmax and minmaxUnoptimized are called with the same arguments.
KrMinMax ==
    /\ krLast = [op |-> "none", kernel |-> "minmax"]
    /\ LET len == Len(krIn[1])
           out == [min |-> Unwritten(len), max |-> Unwritten(len)]
       IN  krLast' = [op |-> "minmax", len |-> len,
                      scalar |-> MinMaxUnoptimized(krIn, out, 0, Len(krIn), len),
                      simd |-> MinMaxSimd(krIn, out, Len(krIn), len, krWidth, krType)]
    /\ UNCHANGED <<krType, krWidth, krIn, krLo, krHi>>
    /\ UNCHANGED notKr

\* clamp and clampUnoptimized are called with the same arguments.
KrClamp ==
    /\ krLast = [op |-> "none", kernel |-> "clamp"]
    /\ LET len == Len(krIn[1])
       IN  krLast' = [op |-> "clamp", len |-> len,
                      scalar |-> ClampUnoptimized(krIn[1], Unwritten(len), 0, krLo, krHi, len),
                      simd |-> ClampSimd(krIn[1], Unwritten(len), krLo, krHi, len, krWidth)]
    /\ UNCHANGED <<krType, krWidth, krIn, krLo, krHi>>
    /\ UNCHANGED notKr

KrNext == KrMinMax \/ KrClamp

SpecKernels == KrInit /\ [][KrNext]_vars

\* C13: for every element type and every array length, the vectorised kernel
\* writes the same output values as the scalar reference kernel.
C13_SimdMatchesScalar ==
    krLast.op \in {"minmax", "clamp"} => krLast.simd = krLast.scalar

----------------------------------------------------------------------------
(* test_interleaver_to_deinterleaver: one feeder source per channel, an     *)
(* Interleaver, a Deinterleaver with the same channel count and chunk size, *)
(* and one collector sink per channel.  An element is <<channel, position   *)
(* in the stream of that channel>>.                                         *)

\* Both blocks constructed and setChunkSize(chunkSize) called on both.
RtInit ==
    /\ \E nchans \in 1 .. MaxIlvChannels, chunkSize \in 1 .. MaxChunkSize :
        /\ ilvNumInputs = nchans
        /\ dlvNumOutputs = nchans
        /\ ilvChunkSize = chunkSize
        /\ dlvChunkSize = chunkSize
        /\ ilvBytes = [c \in Chans(nchans) |-> 0]
        /\ dlvOutElems = [c \in Chans(nchans) |-> 0]
        /\ rtFed = [c \in Chans(nchans) |-> 0]
        /\ rtIn = [c \in Chans(nchans) |-> <<>>]
        /\ rtOut = [c \in Chans(nchans) |-> <<>>]
        /\ ilvLast = [op |-> "setChunkSize", arg |-> chunkSize, err |-> "none"]
        /\ dlvLast = [op |-> "setChunkSize", arg |-> chunkSize, err |-> "none"]
    /\ ilvState = "built"
    /\ dlvState = "built"
    /\ ilvInSize \in 1 .. MaxInSize
    /\ dlvInSize = ilvInSize
    /\ ilvOutElems = 0
    /\ dlvBytes = 0
    /\ rtState = "running"
    /\ rtMid = <<>>
    /\ rtFront = <<>>
    /\ OnlyRt

\* A feeder source posts the next n elements of its stream: they become the
\* (empty) front buffer of that Interleaver input.
RtFeed ==
    /\ rtState = "running"
    /\ \E c \in Chans(ilvNumInputs), n \in 1 .. MaxIlvIn :
        /\ ilvBytes[c] = 0
        /\ rtFed[c] + n <= MaxRtStream
        /\ ilvBytes' = [ilvBytes EXCEPT ![c] = n * ilvInSize]
        /\ rtIn' = [rtIn EXCEPT ![c] = [i \in 1 .. n |-> <<c, rtFed[c] + i>>]]
        /\ rtFed' = [rtFed EXCEPT ![c] = rtFed[c] + n]
    /\ ilvLast' = [op |-> "feed"]
    /\ UNCHANGED <<ilvState, ilvNumInputs, ilvChunkSize, ilvInSize, ilvOutElems>>
    /\ UNCHANGED <<dlvVars, rtState, rtMid, rtFront, rtOut>>
    /\ UNCHANGED notRt

\* The output port of the Interleaver, or an output port of the
\* Deinterleaver, presents a buffer with room for n elements.
RtOffer ==
    /\ rtState = "running"
    /\ \/ /\ \E n \in 0 .. MaxIlvOut :
                /\ n # ilvOutElems
                /\ ilvOutElems' = n
          /\ ilvLast' = [op |-> "offer"]
          /\ UNCHANGED <<dlvOutElems, dlvLast>>
       \/ /\ \E c \in Chans(dlvNumOutputs), n \in 0 .. MaxRtOut :
                /\ n # dlvOutElems[c]
                /\ dlvOutElems' = [dlvOutElems EXCEPT ![c] = n]
          /\ dlvLast' = [op |-> "offer"]
          /\ UNCHANGED <<ilvOutElems, ilvLast>>
    /\ UNCHANGED <<ilvState, ilvNumInputs, ilvChunkSize, ilvInSize, ilvBytes>>
    /\ UNCHANGED <<dlvState, dlvNumOutputs, dlvChunkSize, dlvInSize, dlvBytes>>
    /\ UNCHANGED rtVars
    /\ UNCHANGED notRt

\* Interleaver::work: what it produces goes downstream, what it consumes
\* leaves the front buffers of its inputs.
RtInterleave ==
    /\ rtState = "running"
    /\ IlvMinElements # 0
    /\ ilvLast' = [op |-> "work", minElements |-> IlvMinElements,
                   numChunks |-> IlvNumChunks,
                   chunkSize |-> ilvChunkSize, bytesBefore |-> ilvBytes,
                   outBefore |-> ilvOutElems, produced |-> IlvProduced,
                   consumed |-> IlvConsumedBytes \div ilvInSize]
    /\ ilvBytes' = [c \in Chans(ilvNumInputs) |-> ilvBytes[c] - IlvConsumedBytes]
    /\ ilvOutElems' = ilvOutElems - Len(IlvProduced)
    /\ rtMid' = rtMid \o [k \in 1 .. Len(IlvProduced) |->
                            rtIn[IlvProduced[k][1]][IlvProduced[k][2] + 1]]
    /\ rtIn' = [c \in Chans(ilvNumInputs) |->
                   Drop(rtIn[c], IlvConsumedBytes \div ilvInSize)]
    /\ UNCHANGED <<ilvState, ilvNumInputs, ilvChunkSize, ilvInSize>>
    /\ UNCHANGED <<dlvVars, rtState, rtFed, rtFront, rtOut>>
    /\ UNCHANGED notRt

\* The next n elements the Interleaver produced become the (empty) front
\* buffer of the Deinterleaver input.
RtHandOver ==
    /\ rtState = "running"
    /\ dlvBytes = 0
    /\ \E n \in 1 .. Len(rtMid) :
        /\ dlvBytes' = n * dlvInSize
        /\ rtFront' = Take(rtMid, n)
        /\ rtMid' = Drop(rtMid, n)
    /\ dlvLast' = [op |-> "feed"]
    /\ UNCHANGED <<dlvState, dlvNumOutputs, dlvChunkSize, dlvInSize, dlvOutElems>>
    /\ UNCHANGED <<ilvVars, rtState, rtFed, rtIn, rtOut>>
    /\ UNCHANGED notRt

\* Deinterleaver::work: what it produces on output c reaches collector sink c.
RtDeinterleave ==
    /\ rtState = "running"
    /\ DlvMinElements # 0
    /\ dlvLast' = [op |-> "work", minElements |-> DlvMinElements,
                   numChunks |-> DlvNumChunks,
                   chunkSize |-> dlvChunkSize, bytesBefore |-> dlvBytes,
                   outBefore |-> dlvOutElems,
                   produced |-> [c \in Chans(dlvNumOutputs) |-> DlvProduced(c)],
                   consumed |-> DlvConsumedBytes \div dlvInSize]
    /\ dlvBytes' = dlvBytes - DlvConsumedBytes
    /\ dlvOutElems' = [c \in Chans(dlvNumOutputs) |-> dlvOutElems[c] - Len(DlvProduced(c))]
    /\ rtOut' = [c \in Chans(dlvNumOutputs) |->
                    rtOut[c] \o [k \in 1 .. Len(DlvProduced(c)) |->
                                    rtFront[DlvProduced(c)[k] + 1]]]
    /\ rtFront' = Drop(rtFront, DlvConsumedBytes \div dlvInSize)
    /\ UNCHANGED <<dlvState, dlvNumOutputs, dlvChunkSize, dlvInSize>>
    /\ UNCHANGED <<ilvVars, rtState, rtFed, rtIn, rtMid>>
    /\ UNCHANGED notRt

RtNext == RtFeed \/ RtOffer \/ RtInterleave \/ RtHandOver \/ RtDeinterleave

SpecRoundTrip == RtInit /\ [][RtNext]_vars

\* C14: what collector sink c holds is the stream of channel c, in order: its
\* i-th element is the i-th element feeder source c posted.
C14_RoundTripReproduces ==
    rtState = "running" =>
        \A c \in Chans(dlvNumOutputs) : \A i \in 1 .. Len(rtOut[c]) :
            rtOut[c][i] = <<c, i>>

----------------------------------------------------------------------------
(* The forwarding blocks: Mute, Select, Multiplexer, LabelStripper and      *)
(* Reinterpret, each with one input port and one output port.  A message is *)
(* identified by its number in the order of arrival.                        *)

FwKinds == {"Mute", "Select", "Multiplexer", "LabelStripper", "Reinterpret"}

\* Nothing popped, consumed or posted.
FwNothing == [popped |-> 0, consumed |-> 0, buffer |-> 0, forwarded |-> FALSE]

\* Mute::work (the forwarding Mute): the messages it pops and posts, the
\* elements it consumes, the length of the buffer it posts, and whether that
\* buffer is the one taken from the input.
MuteForwardWork ==
    LET elems == Min(fwIn, fwOutElems)
    IN  IF 0 = elems THEN FwNothing
        ELSE IF fwMute
        THEN [popped |-> 0, consumed |-> fwIn, buffer |-> elems, forwarded |-> FALSE]
        ELSE [popped |-> Len(fwMsgs), consumed |-> fwIn, buffer |-> fwIn,
              forwarded |-> TRUE]

\* Select::work and Multiplexer::work with a single channel: neither reads
\* the messages of its input port.
SelectForwardWork ==
    IF 0 = fwIn THEN FwNothing
    ELSE [popped |-> 0, consumed |-> fwIn, buffer |-> fwIn, forwarded |-> TRUE]

MultiplexerForwardWork ==
    IF 0 = fwIn THEN FwNothing
    ELSE [popped |-> 0, consumed |-> fwIn, buffer |-> fwIn, forwarded |-> TRUE]

\* LabelStripper::work.
LabelStripperWork ==
    IF fwIn = 0
    THEN [popped |-> Len(fwMsgs), consumed |-> 0, buffer |-> 0, forwarded |-> FALSE]
    ELSE [popped |-> Len(fwMsgs), consumed |-> fwIn, buffer |-> fwIn, forwarded |-> TRUE]

\* Reinterpret::work: one message at most is popped, and the buffer it posts
\* is outputPort->buffer().
ReinterpretWork ==
    [popped |-> IF fwMsgs # <<>> THEN 1 ELSE 0,
     consumed |-> fwIn,
     buffer |-> IF fwIn # 0 THEN fwOutElems ELSE 0,
     forwarded |-> fwIn # 0]

FwWorkResult ==
    CASE fwKind = "Mute" -> MuteForwardWork
      [] fwKind = "Select" -> SelectForwardWork
      [] fwKind = "Multiplexer" -> MultiplexerForwardWork
      [] fwKind = "LabelStripper" -> LabelStripperWork
      [] fwKind = "Reinterpret" -> ReinterpretWork

\* The constructor of a forwarding block.  Mute::Mute does not initialise
\* _mute, so a new Mute is muted or not.
FwInit ==
    /\ fwState = "built"
    /\ fwKind \in FwKinds
    /\ fwMute \in (IF fwKind = "Mute" THEN BOOLEAN ELSE {FALSE})
    /\ fwIn = 0
    /\ fwOutElems = 0
    /\ fwMsgs = <<>>
    /\ fwSent = 0
    /\ fwOutMsgs = <<>>
    /\ fwLast = [op |-> "ctor"]
    /\ OnlyFw

\* Mute::setMute.
FwSetMute ==
    /\ fwState = "built"
    /\ fwKind = "Mute"
    /\ \E mute \in BOOLEAN : fwMute' = mute
    /\ fwLast' = [op |-> "setMute"]
    /\ UNCHANGED <<fwState, fwKind, fwIn, fwOutElems, fwMsgs, fwSent, fwOutMsgs>>
    /\ UNCHANGED notFw

\* The upstream block fills the (empty) front buffer of the input port.
FwFeed ==
    /\ fwState = "built"
    /\ fwIn = 0
    /\ \E n \in 1 .. MaxFwIn : fwIn' = n
    /\ fwLast' = [op |-> "feed"]
    /\ UNCHANGED <<fwState, fwKind, fwMute, fwOutElems, fwMsgs, fwSent, fwOutMsgs>>
    /\ UNCHANGED notFw

\* The upstream block posts a message to the input port.
FwSendMessage ==
    /\ fwState = "built"
    /\ fwSent < MaxFwMsgs
    /\ fwSent' = fwSent + 1
    /\ fwMsgs' = Append(fwMsgs, fwSent + 1)
    /\ fwLast' = [op |-> "message"]
    /\ UNCHANGED <<fwState, fwKind, fwMute, fwIn, fwOutElems, fwOutMsgs>>
    /\ UNCHANGED notFw

\* The output port presents a buffer with room for n elements, or none.
FwOffer ==
    /\ fwState = "built"
    /\ \E n \in 0 .. MaxFwOut :
        /\ n # fwOutElems
        /\ fwOutElems' = n
    /\ fwLast' = [op |-> "offer"]
    /\ UNCHANGED <<fwState, fwKind, fwMute, fwIn, fwMsgs, fwSent, fwOutMsgs>>
    /\ UNCHANGED notFw

\* work() of the forwarding block.
FwWork ==
    /\ fwState = "built"
    /\ LET w == FwWorkResult
       IN  /\ fwIn' = fwIn - w.consumed
           /\ fwMsgs' = SubSeq(fwMsgs, w.popped + 1, Len(fwMsgs))
           /\ fwOutMsgs' = fwOutMsgs \o SubSeq(fwMsgs, 1, w.popped)
           /\ fwLast' = [op |-> "work", mute |-> fwMute, queued |-> fwMsgs,
                         posted |-> SubSeq(fwMsgs, 1, w.popped),
                         consumed |-> w.consumed, buffer |-> w.buffer,
                         forwarded |-> w.forwarded]
    /\ UNCHANGED <<fwState, fwKind, fwMute, fwOutElems, fwSent>>
    /\ UNCHANGED notFw

FwNext == FwSetMute \/ FwFeed \/ FwSendMessage \/ FwOffer \/ FwWork

SpecForward == FwInit /\ [][FwNext]_vars

\* C23: when a forwarding block forwards a buffer, every message queued on
\* its input at that moment has been posted to its output, in the order of
\* arrival, and none is left queued.
C23_ForwardDrainsMessages ==
    (fwLast.op = "work" /\ fwLast.forwarded) =>
        /\ fwLast.posted = fwLast.queued
        /\ fwMsgs = <<>>

\* C29 (the forwarding Mute): in every work() invocation of Mute, muted or
\* not, the length of the buffer posted equals the elements consumed.
C29_MuteKeepsLength ==
    /\ (fwKind = "Mute" /\ fwLast.op = "work") => fwLast.buffer = fwLast.consumed
    /\ muLast.op = "work" => muLast.produced = muLast.consumed

----------------------------------------------------------------------------
(* ConstantSource.  The output buffer is a sequence of scalars T; an        *)
(* element of the output dtype is csDim scalars long.                       *)

\* std::vector<T>::resize(size, value).
Resize(v, size, value) ==
    [i \in 1 .. size |-> IF i <= Len(v) THEN v[i] ELSE value]

\* ConstantSource::_updateCache(size): the cache it leaves.
UpdateCache(cache, constant, size) ==
    IF cache = <<>>
    THEN Resize(cache, size, constant)
    ELSE LET cleared == IF constant # cache[1] THEN <<>> ELSE cache
         IN  IF Len(cleared) < size THEN Resize(cleared, size, constant) ELSE cleared

\* The output buffer after memcpy(output0->buffer(), _cache.data(),
\* elems * sizeof(T)): the buffer holds elems * csDim scalars, of which the
\* memcpy writes the first elems; the others keep what the buffer held.
CsBufferWritten(cache, elems, held) ==
    [i \in 1 .. (elems * csDim) |-> IF i <= elems THEN cache[i] ELSE held]

\* ConstantSource<T>::ConstantSource(dimension).
CsInit ==
    /\ csState = "built"
    /\ csDim \in 1 .. MaxCsDim
    /\ csConstant = 0
    /\ csCache = UpdateCache(<<>>, 0, InitialCacheSize)
    /\ csLast = [op |-> "ctor"]
    /\ OnlyCs

\* ConstantSource::setConstant.
CsSetConstant ==
    /\ csState = "built"
    /\ \E constant \in 0 .. MaxConstant :
        /\ csConstant' = constant
        /\ csCache' = UpdateCache(csCache, constant, Len(csCache))
        /\ csLast' = [op |-> "setConstant", arg |-> constant]
    /\ UNCHANGED <<csState, csDim>>
    /\ UNCHANGED notCs

\* ConstantSource::work with an output buffer of elems elements, every
\* scalar of which holds some earlier value.
CsWork ==
    /\ csState = "built"
    /\ \E elems \in 0 .. MaxCsOut, held \in 0 .. MaxConstant :
        IF 0 = elems
        THEN /\ csLast' = [op |-> "work", elems |-> elems, produced |-> <<>>]
             /\ UNCHANGED csCache
        ELSE LET cache == UpdateCache(csCache, csConstant, elems)
             IN  /\ csCache' = cache
                 /\ csLast' = [op |-> "work", elems |-> elems,
                               produced |-> CsBufferWritten(cache, elems, held)]
    /\ UNCHANGED <<csState, csDim, csConstant>>
    /\ UNCHANGED notCs

CsNext == CsSetConstant \/ CsWork

SpecConstantSource == CsInit /\ [][CsNext]_vars

\* C26: after any interleaving of setConstant calls and work() invocations
\* with any output capacities, every element work() produces equals the
\* constant most recently set (0 if never set): the cache never holds a
\* stale value and covers the requested element count.
C26_ProducesConstant ==
    csState = "built" =>
        /\ \A i \in 1 .. Len(csCache) : csCache[i] = csConstant
        /\ csLast.op = "work" =>
               /\ Len(csLast.produced) = csLast.elems * csDim
               /\ \A i \in 1 .. Len(csLast.produced) : csLast.produced[i] = csConstant

----------------------------------------------------------------------------
(* The memory-mapped BinaryFileSource and the threads that call its         *)
(* methods.  A method is the sequence of its statements that touch the      *)
(* mutex or the buffer-manager handle.                                      *)

BfThreads == 1 .. MaxBfThreads

\* activate() and deactivate(): a scoped lock around the reset of the handle.
BfActivate == <<"lock", "resetNew", "unlock">>
BfDeactivate == <<"lock", "resetNull", "unlock">>

\* The statements of each method, in order.  work() returns at once when
\* minElements is 0; getOutputBufferManager tests the handle and returns it;
\* setAutoRewind calls offset() on the handle, deactivates, activates, and
\* calls setOffset() on the handle.
BfStatements(method) ==
    CASE method = "activate" -> BfActivate
      [] method = "deactivate" -> BfDeactivate
      [] method = "work" -> <<"lock", "produce", "unlock">>
      [] method = "workIdle" -> <<>>
      [] method = "getOutputBufferManager" -> <<"test", "read">>
      [] method = "setAutoRewind" -> <<"deref">> \o BfDeactivate \o BfActivate \o <<"deref">>
      [] method = "setFilePath" -> BfDeactivate \o BfActivate

BfMethods ==
    {"activate", "deactivate", "work", "workIdle", "getOutputBufferManager",
     "setAutoRewind", "setFilePath"}

BfIdle == [method |-> "idle", rest |-> <<>>]

\* The statement thread t runs next ("none" when it is in no method).
BfNextStatement(t) == IF bfPc[t].rest = <<>> THEN "none" ELSE Head(bfPc[t].rest)

\* Thread t has run its next statement.
BfAdvance(t) == [bfPc EXCEPT ![t] = [method |-> bfPc[t].method, rest |-> Tail(bfPc[t].rest)]]

BfRecord(t, op) == [op |-> op, thread |-> t, method |-> bfPc[t].method, holds |-> bfMutex = t]

\* BinaryFileSource::BinaryFileSource(dtype).
BfInit ==
    /\ bfState = "built"
    /\ bfHandle = "null"
    /\ bfMutex = 0
    /\ bfPc = [t \in BfThreads |-> BfIdle]
    /\ bfLast = [op |-> "ctor"]
    /\ OnlyBf

\* A thread calls a method of the block.
BfCall ==
    /\ bfState = "built"
    /\ \E t \in BfThreads, method \in BfMethods :
        /\ bfPc[t] = BfIdle
        /\ bfPc' = [bfPc EXCEPT ![t] = [method |-> method, rest |-> BfStatements(method)]]
        /\ bfLast' = [op |-> "call", thread |-> t, method |-> method, holds |-> FALSE]
    /\ UNCHANGED <<bfState, bfHandle, bfMutex>>
    /\ UNCHANGED notBf

\* A thread returns from the method it has run through.
BfReturn ==
    /\ bfState = "built"
    /\ \E t \in BfThreads :
        /\ bfPc[t].method # "idle"
        /\ bfPc[t].rest = <<>>
        /\ bfPc' = [bfPc EXCEPT ![t] = BfIdle]
        /\ bfLast' = BfRecord(t, "return")
    /\ UNCHANGED <<bfState, bfHandle, bfMutex>>
    /\ UNCHANGED notBf

\* Poco::FastMutex::ScopedLock lock(_mmapManagerMutex).
BfLock ==
    /\ bfState = "built"
    /\ \E t \in BfThreads :
        /\ BfNextStatement(t) = "lock"
        /\ bfMutex = 0
        /\ bfMutex' = t
        /\ bfPc' = BfAdvance(t)
        /\ bfLast' = BfRecord(t, "lock")
    /\ UNCHANGED <<bfState, bfHandle>>
    /\ UNCHANGED notBf

\* The scoped lock goes out of scope.
BfUnlock ==
    /\ bfState = "built"
    /\ \E t \in BfThreads :
        /\ BfNextStatement(t) = "unlock"
        /\ bfMutex' = 0
        /\ bfPc' = BfAdvance(t)
        /\ bfLast' = BfRecord(t, "unlock")
    /\ UNCHANGED <<bfState, bfHandle>>
    /\ UNCHANGED notBf

\* _mmapBufferManager.reset(new MemoryMappedBufferManager(args)) and
\* _mmapBufferManager.reset().
BfReset ==
    /\ bfState = "built"
    /\ \E t \in BfThreads :
        /\ BfNextStatement(t) \in {"resetNew", "resetNull"}
        /\ bfHandle' = IF BfNextStatement(t) = "resetNew" THEN "mapped" ELSE "null"
        /\ bfPc' = BfAdvance(t)
        /\ bfLast' = BfRecord(t, "reset")
    /\ UNCHANGED <<bfState, bfMutex>>
    /\ UNCHANGED notBf

\* this->output(0)->produce(elems).
BfProduce ==
    /\ bfState = "built"
    /\ \E t \in BfThreads :
        /\ BfNextStatement(t) = "produce"
        /\ bfPc' = BfAdvance(t)
        /\ bfLast' = BfRecord(t, "produce")
    /\ UNCHANGED <<bfState, bfHandle, bfMutex>>
    /\ UNCHANGED notBf

\* getOutputBufferManager: if(!_mmapBufferManager) throw ..., and
\* return _mmapBufferManager.
BfRead ==
    /\ bfState = "built"
    /\ \E t \in BfThreads :
        /\ BfNextStatement(t) \in {"test", "read"}
        /\ bfPc' = IF BfNextStatement(t) = "test" /\ bfHandle = "null"
                   THEN [bfPc EXCEPT ![t] = [method |-> bfPc[t].method, rest |-> <<>>]]
                   ELSE BfAdvance(t)
        /\ bfLast' = BfRecord(t, "read")
    /\ UNCHANGED <<bfState, bfHandle, bfMutex>>
    /\ UNCHANGED notBf

\* setAutoRewind: _mmapBufferManager->offset() and ->setOffset(offset).  On a
\* null handle the call is undefined: the process traps or goes on.
BfDeref ==
    /\ bfState = "built"
    /\ \E t \in BfThreads :
        /\ BfNextStatement(t) = "deref"
        /\ bfState' \in (IF bfHandle = "null" THEN {"built", "crashed"} ELSE {"built"})
        /\ bfPc' = BfAdvance(t)
        /\ bfLast' = BfRecord(t, "deref")
    /\ UNCHANGED <<bfHandle, bfMutex>>
    /\ UNCHANGED notBf

BfNext ==
    \/ BfCall
    \/ BfReturn
    \/ BfLock
    \/ BfUnlock
    \/ BfReset
    \/ BfProduce
    \/ BfRead
    \/ BfDeref

SpecBinaryFileSource == BfInit /\ [][BfNext]_vars

\* The statements that read or replace the buffer-manager handle.
BfHandleAccess == {"reset", "read", "deref"}

\* C27: every statement that reads or replaces the buffer-manager handle is
\* run by a thread that holds the mutex, so no thread is about to read or
\* dereference the handle while another is about to reset it.
C27_HandleUnderMutex ==
    bfState # "absent" =>
        /\ bfLast.op \in BfHandleAccess => bfLast.holds
        /\ \A t, u \in BfThreads :
               ~(/\ BfNextStatement(t) \in {"resetNew", "resetNull"}
                 /\ BfNextStatement(u) \in {"test", "read", "deref"})

----------------------------------------------------------------------------
(* Evaluator.  A variable is identified by its number; its set-slot is      *)
(* called with one argument, and the expression is one that evaluates.      *)

\* A plausible slip: the evaluation runs as soon as any variable is ready.
EvAnyReady(varsReady) == \E v \in evSlots : v \in varsReady

\* opaqueCallHandler: "check that all slots specified are ready".
EvAllReady(varsReady) == \A v \in evSlots : v \in varsReady

\* Evaluator::Evaluator(varNames).
EvInit ==
    /\ evState = "built"
    /\ \E n \in 1 .. MaxEvVars : evSlots = 1 .. n
    /\ evVarValues = [v \in {} |-> 0]
    /\ evVarsReady = {}
    /\ evCalls = [v \in evSlots |-> 0]
    /\ evComplete = 0
    /\ evTriggered = 0
    /\ evLast = [op |-> "ctor"]
    /\ OnlyEv

\* Evaluator::opaqueCallHandler for the set-slot of variable v with the
\* argument value.
EvSlotCall ==
    /\ evState = "built"
    /\ \E v \in evSlots, value \in 0 .. MaxEvValue :
        /\ evCalls[v] < MaxEvCalls
        /\ LET varValues == [w \in (DOMAIN evVarValues) \cup {v} |->
                                IF w = v THEN value ELSE evVarValues[w]]
               varsReady == evVarsReady \cup {v}
               calls == [evCalls EXCEPT ![v] = evCalls[v] + 1]
               emits == EvAllReady(varsReady)
           IN  /\ evVarValues' = varValues
               /\ evVarsReady' = varsReady
               /\ evCalls' = calls
               /\ evComplete' =
                      evComplete + (IF \A w \in evSlots : calls[w] >= 1 THEN 1 ELSE 0)
               /\ evTriggered' = evTriggered + (IF emits THEN 1 ELSE 0)
               /\ evLast' = IF emits
                            THEN [op |-> "slot", var |-> v, emitted |-> TRUE,
                                  args |-> varValues]
                            ELSE [op |-> "slot", var |-> v, emitted |-> FALSE]
    /\ UNCHANGED <<evState, evSlots>>
    /\ UNCHANGED notEv

EvNext == EvSlotCall

SpecEvaluator == EvInit /\ [][EvNext]_vars

----------------------------------------------------------------------------
(* The validating setters of all blocks. *)

SettersInit == SelInit \/ MuxInit \/ IlvInit \/ DlvInit \/ ClInit

SettersNext ==
    \/ SelSetSelectedInput
    \/ MuxSetOutputChannel
    \/ IlvSetChunkSize
    \/ DlvSetChunkSize
    \/ ClSetBounds
    \/ ClSetFlag

SpecSetters == SettersInit /\ [][SettersNext]_vars

\* C19: a setter call that fails validation (Select::setSelectedInput,
\* Multiplexer::setOutputChannel, Interleaver/Deinterleaver::setChunkSize,
\* Clamp::setMin/setMax/setMinAndMax) leaves the configuration of the block as
\* it was before the call.
C19_FailedSetterKeepsState ==
    /\ (slLast.op = "setSelectedInput" /\ slLast.err # "none") =>
           slSelected = slLast.before
    /\ (mxLast.op = "setOutputChannel" /\ mxLast.err # "none") =>
           mxRoutes = mxLast.before
    /\ (ilvLast.op = "setChunkSize" /\ ilvLast.err # "none") =>
           ilvChunkSize = ilvLast.before
    /\ (dlvLast.op = "setChunkSize" /\ dlvLast.err # "none") =>
           dlvChunkSize = dlvLast.before
    /\ (clLast.op \in {"setMin", "setMax", "setMinAndMax"} /\ clLast.err # "none") =>
           ClConfig = clLast.before

\* C19 witness: setMin has just failed on a Clamp whose bounds and flags
\* earlier calls had moved away from their defaults.
C19_Witness ==
    /\ clLast.op = "setMin"
    /\ clLast.err = "InvalidArgument"
    /\ clLast.before.min # 0
    /\ clLast.before.max # 0
    /\ ~clLast.before.clampMin

====
